---- MODULE Spec2Model ----
(***************************************************************************)
(* HTML page change detector (html_page_detector.py).                      *)
(*                                                                         *)
(* The model has three layers:                                             *)
(*   - Python values: dicts are functions with a finite domain ({} is the  *)
(*     empty function <<>>), Optional[str] is a sequence of length <= 1    *)
(*     (None is <<>>), lists are sequences;                                *)
(*   - the diff engine (compare_structures and its four helpers);          *)
(*   - the scan state machine (scan_url) over the SQLite store             *)
(*     (DatabaseManager) and the notifier (EmailNotifier).                 *)
(***************************************************************************)
EXTENDS Integers, Sequences, FiniteSets, TLC

(***************************************************************************)
(* Bounds of the model.                                                    *)
(***************************************************************************)
MaxScans == 3        \* scan_url calls per behaviour
MaxTime  == 2        \* values of CURRENT_TIMESTAMP (one-second resolution)

(***************************************************************************)
(* Python values.                                                          *)
(***************************************************************************)
None    == <<>>                       \* Optional[str]: None
Some(s) == <<s>>                      \* Optional[str]: a str
EmptyDict == <<>>                     \* {}

\* d.get(k, default)
Get(d, k, default) == IF k \in DOMAIN d THEN d[k] ELSE default

\* d.get(k) for a dict of str values: Optional[str]
GetOpt(d, k) == IF k \in DOMAIN d THEN Some(d[k]) ELSE None

\* str(x) of a dict, a list or an int
py_str(x) == ToString(x)

\* Iteration order of the keys of a dict / of a set of keys.  Python
\* iterates a dict in insertion order and a set in an arbitrary order; the
\* model iterates both in the order of a fixed enumeration.
XPathOrder == << "", "/html", "/html/body", "/html/body/p[1]", "/html/body/p[2]",
                 "/html/body/table", "/html/body/table/tr",
                 "/html/body/table/tr/th", "/html/body/table/tr/th[1]",
                 "/html/body/table/tr/th[2]",
                 "/html/body/table/tr/td", "/html/body/table/tr/td/table",
                 "/html/body/table/tr/td/table/tr",
                 "/html/body/table/tr/td/table/tr/td",
                 "/html/body/table/tr[1]", "/html/body/table/tr[1]/th",
                 "/html/body/table/tr[2]", "/html/body/table/tr[2]/td",
                 "/html/body/table/thead", "/html/body/table/thead/tr",
                 "/html/body/table/thead/tr/td",
                 "/html/body/table/tbody", "/html/body/table/tbody/tr",
                 "/html/body/table/tbody/tr/td",
                 "/html/body/form", "/html/body/form/input",
                 "/html/body/form/input[1]", "/html/body/form/input[2]",
                 "/html/body/form/select" >>
AttrOrder  == << "class", "id", "action", "method", "name" >>

KeysIn(order, S) == SelectSeq(order, LAMBDA k : k \in S)

RECURSIVE Flatten(_)
Flatten(ss) == IF ss = <<>> THEN <<>> ELSE Head(ss) \o Flatten(Tail(ss))

MapSeq(s, F(_)) == [i \in 1..Len(s) |-> F(s[i])]

(***************************************************************************)
(* ChangeDetails (dataclass).                                              *)
(***************************************************************************)
ChangeDetails(ct, xp, ov, nv, et, ts) ==
    [change_type |-> ct, xpath |-> xp, old_value |-> ov, new_value |-> nv,
     element_type |-> et, timestamp |-> ts]

(***************************************************************************)
(* Diff engine.                                                            *)
(***************************************************************************)
\* _compare_elements comparing the whole snapshot of a common element
_compare_elements_WholeSnapshot(old_elements, new_elements, timestamp) ==
    LET removed == MapSeq(KeysIn(XPathOrder, DOMAIN old_elements \ DOMAIN new_elements),
                     LAMBDA xpath : ChangeDetails("element_removed", xpath,
                         Some(py_str(old_elements[xpath])), None,
                         Get(old_elements[xpath], "tag", "unknown"), timestamp))
        added   == MapSeq(KeysIn(XPathOrder, DOMAIN new_elements \ DOMAIN old_elements),
                     LAMBDA xpath : ChangeDetails("element_added", xpath,
                         None, Some(py_str(new_elements[xpath])),
                         Get(new_elements[xpath], "tag", "unknown"), timestamp))
        modified == MapSeq(
                     SelectSeq(KeysIn(XPathOrder, DOMAIN old_elements \cap DOMAIN new_elements),
                         LAMBDA xpath : old_elements[xpath] # new_elements[xpath]),
                     LAMBDA xpath : ChangeDetails("element_text_changed", xpath,
                         GetOpt(old_elements[xpath], "text"),
                         GetOpt(new_elements[xpath], "text"),
                         Get(old_elements[xpath], "tag", "unknown"), timestamp))
    IN  removed \o added \o modified


\* _compare_elements without its "Find removed" and "Find added" loops
_compare_elements_TextOnly(old_elements, new_elements, timestamp) ==
    MapSeq(SelectSeq(KeysIn(XPathOrder, DOMAIN old_elements \cap DOMAIN new_elements),
               LAMBDA xpath : GetOpt(old_elements[xpath], "text")
                                # GetOpt(new_elements[xpath], "text")),
           LAMBDA xpath : ChangeDetails("element_text_changed", xpath,
               GetOpt(old_elements[xpath], "text"),
               GetOpt(new_elements[xpath], "text"),
               Get(old_elements[xpath], "tag", "unknown"), timestamp))

_compare_elements(old_elements, new_elements, timestamp) ==
    LET removed == MapSeq(KeysIn(XPathOrder, DOMAIN old_elements \ DOMAIN new_elements),
                     LAMBDA xpath : ChangeDetails("element_removed", xpath,
                         Some(py_str(old_elements[xpath])), None,
                         Get(old_elements[xpath], "tag", "unknown"), timestamp))
        added   == MapSeq(KeysIn(XPathOrder, DOMAIN new_elements \ DOMAIN old_elements),
                     LAMBDA xpath : ChangeDetails("element_added", xpath,
                         None, Some(py_str(new_elements[xpath])),
                         Get(new_elements[xpath], "tag", "unknown"), timestamp))
        modified == MapSeq(
                     SelectSeq(KeysIn(XPathOrder, DOMAIN old_elements \cap DOMAIN new_elements),
                         LAMBDA xpath : GetOpt(old_elements[xpath], "text")
                                          # GetOpt(new_elements[xpath], "text")),
                     LAMBDA xpath : ChangeDetails("element_text_changed", xpath,
                         GetOpt(old_elements[xpath], "text"),
                         GetOpt(new_elements[xpath], "text"),
                         Get(old_elements[xpath], "tag", "unknown"), timestamp))
    IN  removed \o added \o modified

\* _compare_attributes without the "old_value is None" case
_compare_attributes_NeverAdded(old_attrs, new_attrs, timestamp) ==
    LET all_xpaths == DOMAIN old_attrs \cup DOMAIN new_attrs
        ForXPath(xpath) ==
            LET old_attr == Get(old_attrs, xpath, EmptyDict)
                new_attr == Get(new_attrs, xpath, EmptyDict)
                all_attr_names == DOMAIN old_attr \cup DOMAIN new_attr
                differing == SelectSeq(KeysIn(AttrOrder, all_attr_names),
                    LAMBDA attr_name : GetOpt(old_attr, attr_name) # GetOpt(new_attr, attr_name))
            IN  MapSeq(differing, LAMBDA attr_name :
                    LET old_value == GetOpt(old_attr, attr_name)
                        new_value == GetOpt(new_attr, attr_name)
                        change_type == IF new_value = None THEN "attribute_removed"
                                       ELSE "attribute_modified"
                    IN  ChangeDetails(change_type, xpath \o "/@" \o attr_name,
                                      old_value, new_value, "attribute", timestamp))
    IN  Flatten(MapSeq(KeysIn(XPathOrder, all_xpaths), ForXPath))


_compare_attributes(old_attrs, new_attrs, timestamp) ==
    LET all_xpaths == DOMAIN old_attrs \cup DOMAIN new_attrs
        ForXPath(xpath) ==
            LET old_attr == Get(old_attrs, xpath, EmptyDict)
                new_attr == Get(new_attrs, xpath, EmptyDict)
                all_attr_names == DOMAIN old_attr \cup DOMAIN new_attr
                differing == SelectSeq(KeysIn(AttrOrder, all_attr_names),
                    LAMBDA attr_name : GetOpt(old_attr, attr_name) # GetOpt(new_attr, attr_name))
            IN  MapSeq(differing, LAMBDA attr_name :
                    LET old_value == GetOpt(old_attr, attr_name)
                        new_value == GetOpt(new_attr, attr_name)
                        change_type == IF old_value = None THEN "attribute_added"
                                       ELSE IF new_value = None THEN "attribute_removed"
                                       ELSE "attribute_modified"
                    IN  ChangeDetails(change_type, xpath \o "/@" \o attr_name,
                                      old_value, new_value, "attribute", timestamp))
    IN  Flatten(MapSeq(KeysIn(XPathOrder, all_xpaths), ForXPath))

\* _compare_tables without its "Find added tables" loop
_compare_tables_NoAdded(old_tables, new_tables, timestamp) ==
    MapSeq(KeysIn(XPathOrder, DOMAIN old_tables \ DOMAIN new_tables),
        LAMBDA xpath : ChangeDetails("table_removed", xpath,
            Some(py_str(old_tables[xpath])), None, "table", timestamp))


\* _compare_tables testing column_count only when the headers are equal
_compare_tables_ColumnsElif(old_tables, new_tables, timestamp) ==
    LET removed == MapSeq(KeysIn(XPathOrder, DOMAIN old_tables \ DOMAIN new_tables),
                     LAMBDA xpath : ChangeDetails("table_removed", xpath,
                         Some(py_str(old_tables[xpath])), None, "table", timestamp))
        added   == MapSeq(KeysIn(XPathOrder, DOMAIN new_tables \ DOMAIN old_tables),
                     LAMBDA xpath : ChangeDetails("table_added", xpath,
                         None, Some(py_str(new_tables[xpath])), "table", timestamp))
        ForCommon(xpath) ==
            LET old_table == old_tables[xpath]
                new_table == new_tables[xpath]
            IN  IF old_table.headers # new_table.headers
                THEN << ChangeDetails("table_headers_changed", xpath,
                          Some(py_str(old_table.headers)),
                          Some(py_str(new_table.headers)), "table", timestamp) >>
                ELSE IF old_table.column_count # new_table.column_count
                THEN << ChangeDetails("table_columns_changed", xpath,
                          Some(py_str(old_table.column_count)),
                          Some(py_str(new_table.column_count)), "table", timestamp) >>
                ELSE <<>>
        modified == Flatten(MapSeq(KeysIn(XPathOrder, DOMAIN old_tables \cap DOMAIN new_tables),
                                   ForCommon))
    IN  removed \o added \o modified

_compare_tables(old_tables, new_tables, timestamp) ==
    LET removed == MapSeq(KeysIn(XPathOrder, DOMAIN old_tables \ DOMAIN new_tables),
                     LAMBDA xpath : ChangeDetails("table_removed", xpath,
                         Some(py_str(old_tables[xpath])), None, "table", timestamp))
        added   == MapSeq(KeysIn(XPathOrder, DOMAIN new_tables \ DOMAIN old_tables),
                     LAMBDA xpath : ChangeDetails("table_added", xpath,
                         None, Some(py_str(new_tables[xpath])), "table", timestamp))
        ForCommon(xpath) ==
            LET old_table == old_tables[xpath]
                new_table == new_tables[xpath]
                headers == IF old_table.headers # new_table.headers
                           THEN << ChangeDetails("table_headers_changed", xpath,
                                     Some(py_str(old_table.headers)),
                                     Some(py_str(new_table.headers)), "table", timestamp) >>
                           ELSE <<>>
                columns == IF old_table.column_count # new_table.column_count
                           THEN << ChangeDetails("table_columns_changed", xpath,
                                     Some(py_str(old_table.column_count)),
                                     Some(py_str(new_table.column_count)), "table", timestamp) >>
                           ELSE <<>>
            IN  headers \o columns
        modified == Flatten(MapSeq(KeysIn(XPathOrder, DOMAIN old_tables \cap DOMAIN new_tables),
                                   ForCommon))
    IN  removed \o added \o modified

\* _compare_forms without the test on the inputs of a common form
_compare_forms_NoInputsTest(old_forms, new_forms, timestamp) ==
    LET all_xpaths == DOMAIN old_forms \cup DOMAIN new_forms
        ForXPath(xpath) ==
            IF xpath \notin DOMAIN old_forms
            THEN << ChangeDetails("form_added", xpath, None,
                                  Some(py_str(new_forms[xpath])), "form", timestamp) >>
            ELSE IF xpath \notin DOMAIN new_forms
            THEN << ChangeDetails("form_removed", xpath,
                                  Some(py_str(old_forms[xpath])), None, "form", timestamp) >>
            ELSE << ChangeDetails("form_inputs_changed", xpath,
                                  Some(py_str(Get(old_forms[xpath], "inputs", <<>>))),
                                  Some(py_str(Get(new_forms[xpath], "inputs", <<>>))),
                                  "form", timestamp) >>
    IN  Flatten(MapSeq(KeysIn(XPathOrder, all_xpaths), ForXPath))


\* _compare_forms comparing only the number of inputs of a common form
_compare_forms_LengthOnly(old_forms, new_forms, timestamp) ==
    LET all_xpaths == DOMAIN old_forms \cup DOMAIN new_forms
        ForXPath(xpath) ==
            IF xpath \notin DOMAIN old_forms
            THEN << ChangeDetails("form_added", xpath, None,
                                  Some(py_str(new_forms[xpath])), "form", timestamp) >>
            ELSE IF xpath \notin DOMAIN new_forms
            THEN << ChangeDetails("form_removed", xpath,
                                  Some(py_str(old_forms[xpath])), None, "form", timestamp) >>
            ELSE LET old_inputs == Get(old_forms[xpath], "inputs", <<>>)
                     new_inputs == Get(new_forms[xpath], "inputs", <<>>)
                 IN  IF Len(old_inputs) # Len(new_inputs)
                     THEN << ChangeDetails("form_inputs_changed", xpath,
                                           Some(py_str(old_inputs)),
                                           Some(py_str(new_inputs)), "form", timestamp) >>
                     ELSE <<>>
    IN  Flatten(MapSeq(KeysIn(XPathOrder, all_xpaths), ForXPath))

\* _compare_forms comparing the whole record of a common form
_compare_forms_WholeForm(old_forms, new_forms, timestamp) ==
    LET all_xpaths == DOMAIN old_forms \cup DOMAIN new_forms
        ForXPath(xpath) ==
            IF xpath \notin DOMAIN old_forms
            THEN << ChangeDetails("form_added", xpath, None,
                                  Some(py_str(new_forms[xpath])), "form", timestamp) >>
            ELSE IF xpath \notin DOMAIN new_forms
            THEN << ChangeDetails("form_removed", xpath,
                                  Some(py_str(old_forms[xpath])), None, "form", timestamp) >>
            ELSE IF old_forms[xpath] # new_forms[xpath]
            THEN << ChangeDetails("form_inputs_changed", xpath,
                        Some(py_str(Get(old_forms[xpath], "inputs", <<>>))),
                        Some(py_str(Get(new_forms[xpath], "inputs", <<>>))),
                        "form", timestamp) >>
            ELSE <<>>
    IN  Flatten(MapSeq(KeysIn(XPathOrder, all_xpaths), ForXPath))

_compare_forms(old_forms, new_forms, timestamp) ==
    LET all_xpaths == DOMAIN old_forms \cup DOMAIN new_forms
        ForXPath(xpath) ==
            IF xpath \notin DOMAIN old_forms
            THEN << ChangeDetails("form_added", xpath, None,
                                  Some(py_str(new_forms[xpath])), "form", timestamp) >>
            ELSE IF xpath \notin DOMAIN new_forms
            THEN << ChangeDetails("form_removed", xpath,
                                  Some(py_str(old_forms[xpath])), None, "form", timestamp) >>
            ELSE LET old_inputs == Get(old_forms[xpath], "inputs", <<>>)
                     new_inputs == Get(new_forms[xpath], "inputs", <<>>)
                 IN  IF Len(old_inputs) # Len(new_inputs) \/ old_inputs # new_inputs
                     THEN << ChangeDetails("form_inputs_changed", xpath,
                                           Some(py_str(old_inputs)),
                                           Some(py_str(new_inputs)), "form", timestamp) >>
                     ELSE <<>>
    IN  Flatten(MapSeq(KeysIn(XPathOrder, all_xpaths), ForXPath))

compare_structures(old_structure, new_structure, current_time) ==
       _compare_elements(Get(old_structure, "elements", EmptyDict),
                         Get(new_structure, "elements", EmptyDict), current_time)
    \o _compare_attributes(Get(old_structure, "attributes", EmptyDict),
                           Get(new_structure, "attributes", EmptyDict), current_time)
    \o _compare_tables(Get(old_structure, "tables", EmptyDict),
                       Get(new_structure, "tables", EmptyDict), current_time)
    \o _compare_forms(Get(old_structure, "forms", EmptyDict),
                      Get(new_structure, "forms", EmptyDict), current_time)


(***************************************************************************)
(* Pages.  A response body is a str; its structure is what                 *)
(* extract_xpath_structure builds from the parsed tree.                    *)
(***************************************************************************)
HelloHtml   == "<html><body><p>Hello</p></body></html>"
HelloHtmlWs == "<html><body><p>Hello</p> </body></html>"
GoodbyeHtml == "<html><body><p class=active>Goodbye</p></body></html>"
BlankHtml   == "   "

\* html.fromstring raises ParserError ("Document is empty") on these bodies
Unparseable == { "", BlankHtml }

ElementSnapshot(tag, text) == [tag |-> tag, text |-> text, tail |-> ""]

PageElements(p1text) ==
    [xpath \in {"/html", "/html/body", "/html/body/p[1]"} |->
        CASE xpath = "/html"            -> ElementSnapshot("html", "")
          [] xpath = "/html/body"       -> ElementSnapshot("body", "")
          [] xpath = "/html/body/p[1]"  -> ElementSnapshot("p", p1text)]

HelloStructure ==
    [elements |-> PageElements("Hello"), attributes |-> EmptyDict,
     tables |-> EmptyDict, forms |-> EmptyDict]

GoodbyeStructure ==
    [elements |-> PageElements("Goodbye"),
     attributes |-> [xpath \in {"/html/body/p[1]"} |-> [class |-> "active"]],
     tables |-> EmptyDict, forms |-> EmptyDict]

(***************************************************************************)
(* The parsed tree (lxml.html): an element has a tag, attributes, text,    *)
(* tail and children.  What extract_xpath_structure reads of the tree is   *)
(* computed from it: iter(), getpath(), xpath('.//tr') and so on.          *)
(***************************************************************************)
Element(tag, attrib, text, children) ==
    [tag |-> tag, attrib |-> attrib, text |-> text, tail |-> "", children |-> children]

\* an element without attributes: with text only, with children only
Leaf(tag, text) == Element(tag, EmptyDict, text, <<>>)
Box(tag, children) == Element(tag, EmptyDict, "", children)

\* str.strip() on the texts the pages of the model contain
py_strip(s) ==
    CASE s = " "      -> ""
      [] s = " Name " -> "Name"
      [] OTHER        -> s

RECURSIVE Join(_)
Join(ss) == IF ss = <<>> THEN "" ELSE Head(ss) \o Join(Tail(ss))

\* element.iter(): the element and its descendants, in document order
RECURSIVE iter(_)
iter(element) ==
    << element >> \o Flatten([i \in DOMAIN element.children |-> iter(element.children[i])])

\* element.text_content()
RECURSIVE text_content(_)
text_content(element) ==
    element.text \o Join([i \in DOMAIN element.children |->
                            text_content(element.children[i]) \o element.children[i].tail])

\* getpath of the i-th child of the element at path: the position among the
\* siblings of the same tag is written only when there are several
getpath(path, children, i) ==
    LET same == { j \in DOMAIN children : children[j].tag = children[i].tag }
    IN  path \o "/" \o children[i].tag \o
        ( IF Cardinality(same) > 1
          THEN "[" \o ToString(Cardinality({ j \in same : j <= i })) \o "]"
          ELSE "" )

\* the elements of a tree with their paths, in document order
RECURSIVE Located(_, _)
Located(element, path) ==
    << [xpath |-> path, element |-> element] >> \o
    Flatten([i \in DOMAIN element.children |->
                Located(element.children[i], getpath(path, element.children, i))])

\* element.xpath('.//a | .//b'): the descendants with one of the tags
xpath_descendants(element, tags) ==
    SelectSeq(Tail(iter(element)), LAMBDA e : e.tag \in tags)

\* table.xpath('.//th | .//thead//td')
RECURSIVE xpath_header_cells(_, _)
xpath_header_cells(element, in_thead) ==
    Flatten([i \in DOMAIN element.children |->
        LET child == element.children[i]
        IN  ( IF child.tag = "th" \/ (child.tag = "td" /\ in_thead)
              THEN << child >> ELSE <<>> ) \o
            xpath_header_cells(child, in_thead \/ child.tag = "thead")])

_extract_table_structure(table) ==
    LET headers == xpath_header_cells(table, FALSE)
        rows == xpath_descendants(table, { "tr" })
    IN  [headers |-> SelectSeq([i \in DOMAIN headers |-> py_strip(text_content(headers[i]))],
                               LAMBDA text : text # ""),
         row_count |-> Len(rows),
         column_count |-> IF rows # <<>>
                          THEN Len(xpath_descendants(rows[1], { "td", "th" }))
                          ELSE 0]

\* input_info of _extract_form_structure
input_info(inp) ==
    [type |-> Get(inp.attrib, "type", inp.tag), name |-> Get(inp.attrib, "name", ""),
     id |-> Get(inp.attrib, "id", ""), class |-> Get(inp.attrib, "class", "")]

_extract_form_structure(form) ==
    LET inputs == xpath_descendants(form, { "input", "select", "textarea" })
    IN  [action |-> Get(form.attrib, "action", ""),
         method |-> Get(form.attrib, "method", ""),
         inputs |-> [i \in DOMAIN inputs |-> input_info(inputs[i])]]

\* the try block of extract_xpath_structure on the tree doc
StructureOf(doc) ==
    LET located == Located(doc, "/" \o doc.tag)
        At(xpath) == (located[CHOOSE i \in DOMAIN located : located[i].xpath = xpath]).element
        Paths(Test(_)) == { located[i].xpath :
                              i \in { j \in DOMAIN located : Test(located[j].element) } }
    IN  [elements |-> [xpath \in Paths(LAMBDA e : TRUE) |->
                          [tag |-> At(xpath).tag, text |-> py_strip(At(xpath).text),
                           tail |-> py_strip(At(xpath).tail)]],
         attributes |-> [xpath \in Paths(LAMBDA e : e.attrib # EmptyDict) |->
                          At(xpath).attrib],
         tables |-> [xpath \in Paths(LAMBDA e : e.tag = "table") |->
                          _extract_table_structure(At(xpath))],
         forms |-> [xpath \in Paths(LAMBDA e : e.tag = "form") |->
                          _extract_form_structure(At(xpath))]]

(***************************************************************************)
(* Pages with a table and pages with a form, and the trees html.fromstring *)
(* parses them to.                                                         *)
(***************************************************************************)
OneHeaderHtml ==
    "<html><body><table><tr><th>Name</th></tr></table></body></html>"
TwoHeadersHtml ==
    "<html><body><table><tr><th>Name</th><th>Price</th></tr></table></body></html>"
SwappedHeadersHtml ==
    "<html><body><table><tr><th>Price</th><th>Name</th></tr></table></body></html>"
HeaderAndCellHtml ==
    "<html><body><table><tr><th>Name</th><td>x</td></tr></table></body></html>"
TwoRowsHtml ==
    "<html><body><table><tr><th>Name</th></tr><tr><td>a</td></tr></table></body></html>"
NoRowsHtml ==
    "<html><body><table></table></body></html>"
NestedTableHtml ==
    "<html><body><table><tr><td><table><tr><td>n</td></tr></table></td></tr></table></body></html>"
SectionedHtml ==
    "<html><body><table><thead><tr><td> Name </td></tr></thead><tbody><tr><td>a</td></tr></tbody></table></body></html>"
NoFormHtml ==
    "<html><body></body></html>"
FormHtml ==
    "<html><body><form action=/a><input name=q></form></body></html>"
FormOtherActionHtml ==
    "<html><body><form action=/b><input name=q></form></body></html>"
FormWithMethodHtml ==
    "<html><body><form action=/a method=post><input name=q></form></body></html>"
FormTwoInputsHtml ==
    "<html><body><form action=/a><input name=q><input name=r></form></body></html>"
FormSwappedInputsHtml ==
    "<html><body><form action=/a><input name=r><input name=q></form></body></html>"

TablePages ==
    { OneHeaderHtml, TwoHeadersHtml, SwappedHeadersHtml, HeaderAndCellHtml,
      TwoRowsHtml, NoRowsHtml, NestedTableHtml, SectionedHtml }

FormPages ==
    { NoFormHtml, FormHtml, FormOtherActionHtml, FormWithMethodHtml,
      FormTwoInputsHtml, FormSwappedInputsHtml }

\* the document of a body
Document(body) == Box("html", << Box("body", body) >>)

\* html.fromstring(html_content)
html_fromstring(html_content) ==
    CASE html_content = OneHeaderHtml ->
            Document(<< Box("table", << Box("tr", << Leaf("th", "Name") >>) >>) >>)
      [] html_content = TwoHeadersHtml ->
            Document(<< Box("table", << Box("tr", << Leaf("th", "Name"), Leaf("th", "Price") >>) >>) >>)
      [] html_content = SwappedHeadersHtml ->
            Document(<< Box("table", << Box("tr", << Leaf("th", "Price"), Leaf("th", "Name") >>) >>) >>)
      [] html_content = HeaderAndCellHtml ->
            Document(<< Box("table", << Box("tr", << Leaf("th", "Name"), Leaf("td", "x") >>) >>) >>)
      [] html_content = TwoRowsHtml ->
            Document(<< Box("table", << Box("tr", << Leaf("th", "Name") >>), Box("tr", << Leaf("td", "a") >>) >>) >>)
      [] html_content = NoRowsHtml ->
            Document(<< Box("table", <<>>) >>)
      [] html_content = NestedTableHtml ->
            Document(<< Box("table", << Box("tr", << Box("td", <<
                Box("table", << Box("tr", << Leaf("td", "n") >>) >>) >>) >>) >>) >>)
      [] html_content = SectionedHtml ->
            Document(<< Box("table", <<
                Box("thead", << Box("tr", << Leaf("td", " Name ") >>) >>),
                Box("tbody", << Box("tr", << Leaf("td", "a") >>) >>) >>) >>)
      [] html_content = NoFormHtml ->
            Document(<<>>)
      [] html_content = FormHtml ->
            Document(<< Element("form", [action |-> "/a"], "", <<
                Element("input", [name |-> "q"], "", <<>>) >>) >>)
      [] html_content = FormOtherActionHtml ->
            Document(<< Element("form", [action |-> "/b"], "", <<
                Element("input", [name |-> "q"], "", <<>>) >>) >>)
      [] html_content = FormWithMethodHtml ->
            Document(<< Element("form", [action |-> "/a", method |-> "post"], "", <<
                Element("input", [name |-> "q"], "", <<>>) >>) >>)
      [] html_content = FormTwoInputsHtml ->
            Document(<< Element("form", [action |-> "/a"], "", <<
                Element("input", [name |-> "q"], "", <<>>),
                Element("input", [name |-> "r"], "", <<>>) >>) >>)
      [] html_content = FormSwappedInputsHtml ->
            Document(<< Element("form", [action |-> "/a"], "", <<
                Element("input", [name |-> "r"], "", <<>>),
                Element("input", [name |-> "q"], "", <<>>) >>) >>)

\* the structure the try block of extract_xpath_structure builds
ParsedStructure(html_content) ==
    CASE html_content = HelloHtml   -> HelloStructure
      [] html_content = HelloHtmlWs -> HelloStructure
      [] html_content = GoodbyeHtml -> GoodbyeStructure
      [] html_content \in TablePages \cup FormPages ->
            StructureOf(html_fromstring(html_content))

\* try: ... return structure / except Exception: return {}
extract_xpath_structure(html_content) ==
    IF html_content \in Unparseable THEN EmptyDict
    ELSE ParsedStructure(html_content)

\* hashlib.md5(s.encode()).hexdigest(), collisions apart
md5_hexdigest(s) == "md5:" \o s

(***************************************************************************)
(* json.dumps / json.loads.  A TEXT value of the xpath_structure column    *)
(* is a JSON document of kind "object" (a dict), of another JSON kind, or  *)
(* not JSON at all.                                                        *)
(***************************************************************************)
json_dumps(d) == [kind |-> "object", value |-> d]

JSONDecodeError(text) == text.kind = "invalid"

json_loads(text) == text.value

\* old_structure.get(...) needs a dict: AttributeError on a list, None, ...
IsDict(text) == text.kind = "object"

(***************************************************************************)
(* The HTTP exchange of fetch_page.                                        *)
(***************************************************************************)
Response(raised, status, text) == [raised |-> raised, status |-> status, text |-> text]

Responses ==
    { Response("Timeout", 0, ""), Response("", 404, HelloHtml),
      Response("", 200, ""), Response("", 200, HelloHtml),
      Response("", 200, HelloHtmlWs), Response("", 200, GoodbyeHtml),
      Response("", 200, BlankHtml) }

\* fetch_page without raise_for_status
fetch_page_AnyStatus(response) ==
    IF response.raised # "" THEN None ELSE Some(response.text)

\* session.get raises, or raise_for_status raises on 4xx/5xx: return None
fetch_page(response) ==
    IF response.raised # "" \/ response.status >= 400
    THEN None
    ELSE Some(response.text)

\* "if current_html is None" in place of "if not current_html"
not_html_NoneOnly(current_html) == current_html = None

\* not current_html
not_html(current_html) == current_html = None \/ current_html = Some("")

(***************************************************************************)
(* DatabaseManager.                                                        *)
(***************************************************************************)
SeqMax(S) == CHOOSE m \in S : \A x \in S : x <= m

Rows(table) == { table[i] : i \in 1..Len(table) }

\* save_scan_result reading lastrowid before the INSERT INTO scan_history
save_scan_result_StaleId(history, detected, url, html_hash, xpath_structure, changes, now) ==
    LET scan_row == [id |-> Len(history) + 1, url |-> url, scan_time |-> now,
                     html_hash |-> html_hash, xpath_structure |-> xpath_structure,
                     changes_detected |-> Len(changes)]
        change_rows == [i \in 1..Len(changes) |->
                          [id |-> Len(detected) + i, scan_id |-> Len(history),
                           change_type |-> changes[i].change_type,
                           xpath |-> changes[i].xpath,
                           old_value |-> changes[i].old_value,
                           new_value |-> changes[i].new_value,
                           element_type |-> changes[i].element_type,
                           detection_time |-> now]]
    IN  [scan_history |-> Append(history, scan_row),
         detected_changes |-> detected \o change_rows,
         scan_id |-> Len(history) + 1]

\* INSERT INTO scan_history, INSERT INTO detected_changes per change, commit
save_scan_result(history, detected, url, html_hash, xpath_structure, changes, now) ==
    LET scan_id == Len(history) + 1
        scan_row == [id |-> scan_id, url |-> url, scan_time |-> now,
                     html_hash |-> html_hash, xpath_structure |-> xpath_structure,
                     changes_detected |-> Len(changes)]
        change_rows == [i \in 1..Len(changes) |->
                          [id |-> Len(detected) + i, scan_id |-> scan_id,
                           change_type |-> changes[i].change_type,
                           xpath |-> changes[i].xpath,
                           old_value |-> changes[i].old_value,
                           new_value |-> changes[i].new_value,
                           element_type |-> changes[i].element_type,
                           detection_time |-> now]]
    IN  [scan_history |-> Append(history, scan_row),
         detected_changes |-> detected \o change_rows,
         scan_id |-> scan_id]

\* get_last_scan without its WHERE url = ?
get_last_scan_AnyUrl(history, url) ==
    LET latest == SeqMax({ r.scan_time : r \in Rows(history) })
    IN  IF history = <<>> THEN { None }
        ELSE { << r.html_hash, r.xpath_structure >> :
                 r \in { q \in Rows(history) : q.scan_time = latest } }

\* SELECT html_hash, xpath_structure ... WHERE url = ? ORDER BY scan_time DESC
\* LIMIT 1: the rows the query may return.  SQL leaves the order of rows with
\* equal scan_time unspecified.
get_last_scan(history, url) ==
    LET of_url == { r \in Rows(history) : r.url = url }
        latest == SeqMax({ r.scan_time : r \in of_url })
    IN  IF of_url = {} THEN { None }
        ELSE { << r.html_hash, r.xpath_structure >> :
                 r \in { q \in of_url : q.scan_time = latest } }

(***************************************************************************)
(* Configuration (the dict given to HTMLPageDetector.__init__).            *)
(***************************************************************************)
Config(email_enabled, recipients, generate_diff) ==
    [email_enabled |-> email_enabled, recipients |-> recipients,
     generate_diff |-> generate_diff]

Configs ==
    { Config(TRUE,  << "ops@example.com", "dev@example.com" >>, TRUE),
      Config(FALSE, << "ops@example.com" >>, TRUE),
      Config(TRUE,  << >>, FALSE) }

Urls == { "https://example.com", "https://httpbin.org/html" }

Procs == { 1 }

(***************************************************************************)
(* State.                                                                  *)
(***************************************************************************)
VARIABLES
    config,             \* self.config
    scan_history,       \* table scan_history, committed rows in id order
    detected_changes,   \* table detected_changes, committed rows in id order
    clock,              \* CURRENT_TIMESTAMP / datetime.now(), in seconds
    n_scans,            \* number of scan_url calls made so far
    scan,               \* per caller: the frame of its scan_url call
    monitor,            \* the frame of monitor_urls
    diff                \* the last call of compare_structures made on its own

vars == << config, scan_history, detected_changes, clock, n_scans, scan,
           monitor, diff >>

\* the committed content of the database
Database(history, detected) == [scan_history |-> history, detected_changes |-> detected]

NoResponse == Response("", 0, "")

\* The frame of scan_url before its first call.  response and db_at_call are
\* not variables of the code: they record the HTTP exchange of the call and
\* the database at the time of the call.
IdleFrame ==
    [pc |-> "idle", url |-> "", response |-> NoResponse,
     db_at_call |-> Database(<<>>, <<>>),
     current_html |-> None, current_hash |-> "",
     current_structure |-> EmptyDict, last_scan |-> None, compared |-> FALSE,
     changes |-> <<>>, html_diff |-> "", next_recipient |-> 1, alerts |-> <<>>,
     scan_id |-> 0, result |-> FALSE, raised |-> ""]

\* monitor_urls is not running
MonitorOff == [pc |-> "off", i |-> 1, returned |-> 0, interrupts |-> 0]

\* compare_structures has not been called on its own
NoDiff == [called |-> FALSE, old_structure |-> EmptyDict, new_structure |-> EmptyDict,
           changes |-> <<>>, reverse |-> <<>>]

Init ==
    /\ config \in Configs
    /\ scan_history = <<>>
    /\ detected_changes = <<>>
    /\ clock = 1
    /\ n_scans = 0
    /\ scan = [p \in Procs |-> IdleFrame]
    /\ monitor = MonitorOff
    /\ diff = NoDiff

(***************************************************************************)
(* scan_url, lines 595-627: from the last scan to the changeset.           *)
(***************************************************************************)
Detection(changes, compared, raised) ==
    [changes |-> changes, compared |-> compared, raised |-> raised]

\* scan_url diffing a first scan against an empty structure
DetectChanges_NoBaseline(last_scan, current_hash, current_structure, now) ==
    IF last_scan = None
    THEN Detection(compare_structures(EmptyDict, current_structure, now), TRUE, "")
    ELSE LET last_hash == last_scan[1]
             last_structure_json == last_scan[2]
         IN  IF current_hash = last_hash
             THEN Detection(<<>>, FALSE, "")
             ELSE IF JSONDecodeError(last_structure_json)
             THEN Detection(<<>>, FALSE, "")
             ELSE IF ~IsDict(last_structure_json)
             THEN Detection(<<>>, TRUE, "AttributeError")
             ELSE Detection(compare_structures(json_loads(last_structure_json),
                                               current_structure, now), TRUE, "")

DetectChanges(last_scan, current_hash, current_structure, now) ==
    IF last_scan = None
    THEN Detection(<<>>, FALSE, "")                     \* first scan: baseline
    ELSE LET last_hash == last_scan[1]
             last_structure_json == last_scan[2]
         IN  IF current_hash = last_hash
             THEN Detection(<<>>, FALSE, "")            \* no changes detected
             ELSE IF JSONDecodeError(last_structure_json)
             THEN Detection(<<>>, FALSE, "")            \* except json.JSONDecodeError
             ELSE IF ~IsDict(last_structure_json)
             THEN Detection(<<>>, TRUE, "AttributeError")
             ELSE Detection(compare_structures(json_loads(last_structure_json),
                                               current_structure, now), TRUE, "")

\* the test of line 617 without "self.email_notifier and"
alerts_configured_RecipientsOnly(cfg) == cfg.recipients # <<>>

\* if self.email_notifier and self.config.get('recipients')
alerts_configured(cfg) == cfg.email_enabled /\ cfg.recipients # <<>>

\* html_diff as set at lines 611-614
HtmlDiff(cfg, changes) ==
    IF changes # <<>> /\ cfg.generate_diff
    THEN "HTML diff generation requires storing full HTML content"
    ELSE ""

\* send_alert without its try / except
send_alert_raises_Uncaught(delivered) == ~delivered

\* send_alert wraps the whole delivery in try / except Exception
send_alert_raises(delivered) == FALSE

\* scan_url returning True whenever it reaches its last line
scan_result_Always(changes) == Len(changes) >= 0

\* return len(changes) > 0
scan_result(changes) == Len(changes) > 0

(***************************************************************************)
(* Actions.                                                                *)
(***************************************************************************)
\* scan_url(url) is called; fetch_page, md5 and extract_xpath_structure run.
FetchPage(p, url, response) ==
    /\ scan[p].pc \in { "idle", "returned", "raised" }
    /\ n_scans < MaxScans
    /\ n_scans' = n_scans + 1
    /\ LET current_html == fetch_page(response)
           called == [IdleFrame EXCEPT !.url = url, !.response = response,
                          !.db_at_call = Database(scan_history, detected_changes)]
       IN  scan' = [scan EXCEPT ![p] =
             IF not_html(current_html)
             THEN [called EXCEPT !.pc = "returned",
                                 !.current_html = current_html, !.result = FALSE]
             ELSE [called EXCEPT !.pc = "lookup",
                                    !.current_html = current_html,
                                    !.current_hash = md5_hexdigest(current_html[1]),
                                    !.current_structure =
                                        extract_xpath_structure(current_html[1])]]
    /\ UNCHANGED << monitor, diff, config, scan_history, detected_changes, clock >>

\* get_last_scan(url), then the comparison with the last scan.
GetLastScan(p) ==
    /\ scan[p].pc = "lookup"
    /\ \E last_scan \in get_last_scan(scan_history, scan[p].url) :
         LET d == DetectChanges(last_scan, scan[p].current_hash,
                                scan[p].current_structure, clock)
         IN  scan' = [scan EXCEPT ![p] =
               [@ EXCEPT !.last_scan = last_scan,
                         !.compared = d.compared,
                         !.changes = d.changes,
                         !.html_diff = HtmlDiff(config, d.changes),
                         !.raised = d.raised,
                         !.pc = IF d.raised # "" THEN "raised"
                                ELSE IF d.changes # <<>> /\ alerts_configured(config)
                                THEN "notify"
                                ELSE "persist"]]
    /\ UNCHANGED << monitor, diff, config, scan_history, detected_changes, clock, n_scans >>

\* one iteration of "for recipient in self.config['recipients']"
SendAlert(p, delivered) ==
    /\ scan[p].pc = "notify"
    /\ LET f == scan[p]
           recipient == config.recipients[f.next_recipient]
           alert == [recipient |-> recipient, url |-> f.url, changes |-> f.changes,
                     html_diff |-> f.html_diff, delivered |-> delivered]
       IN  scan' = [scan EXCEPT ![p] =
             IF send_alert_raises(delivered)
             THEN [f EXCEPT !.alerts = Append(f.alerts, alert),
                            !.raised = "SMTPException", !.pc = "raised"]
             ELSE [f EXCEPT !.alerts = Append(f.alerts, alert),
                            !.next_recipient = f.next_recipient + 1,
                            !.pc = IF f.next_recipient = Len(config.recipients)
                                   THEN "persist" ELSE "notify"]]
    /\ UNCHANGED << monitor, diff, config, scan_history, detected_changes, clock, n_scans >>

\* save_scan_result commits; scan_url returns len(changes) > 0.
SaveScanResult(p) ==
    /\ scan[p].pc = "persist"
    /\ LET f == scan[p]
           saved == save_scan_result(scan_history, detected_changes, f.url,
                        f.current_hash, json_dumps(f.current_structure),
                        f.changes, clock)
       IN  /\ scan_history' = saved.scan_history
           /\ detected_changes' = saved.detected_changes
           /\ scan' = [scan EXCEPT ![p] =
                 [f EXCEPT !.scan_id = saved.scan_id,
                           !.result = scan_result(f.changes),
                           !.pc = "returned"]]
    /\ UNCHANGED << monitor, diff, config, clock, n_scans >>

\* scan_url swallowing the exception of save_scan_result
SaveScanResultFails_Swallowed(p) ==
    /\ scan[p].pc = "persist"
    /\ scan' = [scan EXCEPT ![p] =
          [@ EXCEPT !.result = scan_result(scan[p].changes), !.pc = "returned"]]
    /\ UNCHANGED << monitor, diff, config, scan_history, detected_changes, clock, n_scans >>

\* save_scan_result raises sqlite3.Error before its commit (locked database,
\* full disk, ...): nothing is committed and the exception leaves scan_url.
SaveScanResultFails(p) ==
    /\ scan[p].pc = "persist"
    /\ scan' = [scan EXCEPT ![p] =
          [@ EXCEPT !.raised = "sqlite3.Error", !.pc = "raised"]]
    /\ UNCHANGED << monitor, diff, config, scan_history, detected_changes, clock, n_scans >>

\* a second passes
Tick ==
    /\ clock < MaxTime
    /\ clock' = clock + 1
    /\ UNCHANGED << monitor, diff, config, scan_history, detected_changes, n_scans, scan >>

Next ==
    \/ \E p \in Procs, url \in Urls, response \in Responses : FetchPage(p, url, response)
    \/ \E p \in Procs : GetLastScan(p)
    \/ \E p \in Procs, delivered \in BOOLEAN : SendAlert(p, delivered)
    \/ \E p \in Procs : SaveScanResult(p)
    \/ \E p \in Procs : SaveScanResultFails(p)
    \/ Tick

Spec == Init /\ [][Next]_vars

(***************************************************************************)
(* The database file damaged or edited outside the program: the            *)
(* xpath_structure TEXT of a committed row no longer holds the JSON object *)
(* json.dumps wrote.                                                       *)
(***************************************************************************)
TruncatedJson == [kind |-> "invalid", value |-> <<>>]   \* '{"elements": {"/ht'
JsonArray     == [kind |-> "array", value |-> <<>>]     \* '[]'

CorruptTexts == { TruncatedJson, JsonArray }

CorruptStoredStructure(i, text) ==
    /\ \A p \in Procs : scan[p].pc \in { "idle", "returned", "raised" }
    /\ \A j \in 1..Len(scan_history) : IsDict(scan_history[j].xpath_structure)
    /\ scan_history' = [scan_history EXCEPT ![i].xpath_structure = text]
    /\ UNCHANGED << monitor, diff, config, detected_changes, clock, n_scans, scan >>

NextCorrupt ==
    \/ Next
    \/ \E i \in 1..Len(scan_history), text \in CorruptTexts :
          CorruptStoredStructure(i, text)

SpecCorrupt == Init /\ [][NextCorrupt]_vars

\* The same with one monitored URL and alerts configured.
SingleUrl == "https://httpbin.org/html"

InitSingle ==
    /\ Init
    /\ alerts_configured(config)

NextSingle ==
    \/ \E p \in Procs, response \in Responses : FetchPage(p, SingleUrl, response)
    \/ \E p \in Procs : GetLastScan(p)
    \/ \E p \in Procs, delivered \in BOOLEAN : SendAlert(p, delivered)
    \/ \E p \in Procs : SaveScanResult(p)
    \/ \E p \in Procs : SaveScanResultFails(p)
    \/ Tick
    \/ \E i \in 1..Len(scan_history), text \in CorruptTexts :
          CorruptStoredStructure(i, text)

SpecCorruptSingle == InitSingle /\ [][NextSingle]_vars

(***************************************************************************)
(* Two callers of scan_url on one HTMLPageDetector (an external scheduler  *)
(* running scans concurrently).  Each call of save_scan_result and of      *)
(* get_last_scan opens its own connection; SQLite serialises the write     *)
(* transactions, and a writer that cannot get the lock raises.             *)
(***************************************************************************)
Scanners == { 1, 2 }

\* create_sample_config: alerts disabled
SampleConfig == Config(FALSE, << "ops@example.com" >>, TRUE)

ConcResponses ==
    { Response("Timeout", 0, ""), Response("", 200, HelloHtml),
      Response("", 200, GoodbyeHtml) }

InitConc ==
    /\ config = SampleConfig
    /\ scan_history = <<>>
    /\ detected_changes = <<>>
    /\ clock = 1
    /\ n_scans = 0
    /\ scan = [p \in Scanners |-> IdleFrame]
    /\ monitor = MonitorOff
    /\ diff = NoDiff

NextConc ==
    \/ \E p \in Scanners, url \in Urls, response \in ConcResponses :
          FetchPage(p, url, response)
    \/ \E p \in Scanners : GetLastScan(p)
    \/ \E p \in Scanners : SaveScanResult(p)
    \/ \E p \in Scanners : SaveScanResultFails(p)
    \/ Tick

SpecConc == InitConc /\ [][NextConc]_vars

(***************************************************************************)
(* monitor_urls(urls, interval): the endless loop of scan cycles, and a    *)
(* KeyboardInterrupt arriving at any point of it.  monitor.pc is the       *)
(* position of the loop: "for" (in the for statement, calling scan_url     *)
(* while monitor.returned < n_scans), "sleep_url", "sleep_interval",       *)
(* "cooldown" (in the except Exception handler), "stopped" (after break)   *)
(* and "propagated" (an exception has left monitor_urls).                  *)
(***************************************************************************)
UrlDelay == 5
Cooldown == 60
ScanInterval == 3600

\* config['urls_to_monitor']
urls_to_monitor == << "https://example.com", "https://httpbin.org/html" >>

\* KeyboardInterrupt is a BaseException: "except Exception" and
\* "except requests.RequestException" let it pass, a bare "except:" does not.
KeyboardInterrupt == "KeyboardInterrupt"

\* try: return element.getroottree().getpath(element) / except: return ""
_get_element_xpath(xpath, interrupted) == IF interrupted THEN "" ELSE xpath

\* the keys of a dict filled by "d[xpath] = ..." when the xpath of one
\* element was computed under an interrupt
Rekey(d, at) ==
    IF at \in DOMAIN d
    THEN [k \in { _get_element_xpath(x, x = at) : x \in DOMAIN d } |->
             IF k = _get_element_xpath(at, TRUE) THEN d[at] ELSE d[k]]
    ELSE d

\* extract_xpath_structure when a KeyboardInterrupt arrives inside
\* _get_element_xpath for the element at
extract_xpath_structure_interrupted(html_content, at) ==
    LET structure == extract_xpath_structure(html_content)
    IN  [structure EXCEPT !.elements = Rekey(@, at), !.attributes = Rekey(@, at)]

InitMonitor ==
    /\ config \in Configs
    /\ alerts_configured(config)
    /\ scan_history = <<>>
    /\ detected_changes = <<>>
    /\ clock = 1
    /\ n_scans = 0
    /\ scan = [p \in Procs |-> IdleFrame]
    /\ monitor = MonitorOff
    /\ diff = NoDiff

ScanInFlight == monitor.pc = "for" /\ monitor.returned < n_scans

\* monitor_urls is called and enters the first cycle
MonitorUrls ==
    /\ monitor.pc = "off"
    /\ monitor' = [monitor EXCEPT !.pc = "for", !.i = 1]
    /\ UNCHANGED << diff, config, scan_history, detected_changes, clock, n_scans, scan >>

\* self.scan_url(url) for the url at position monitor.i
ScanUrl(response) ==
    /\ monitor.pc = "for"
    /\ monitor.returned = n_scans
    /\ FetchPage(1, urls_to_monitor[monitor.i], response)

\* scan_url has returned: on to time.sleep(5)
ScanReturns ==
    /\ ScanInFlight
    /\ scan[1].pc = "returned"
    /\ monitor' = [monitor EXCEPT !.pc = "sleep_url", !.returned = n_scans]
    /\ UNCHANGED << diff, config, scan_history, detected_changes, clock, n_scans, scan >>

\* the loop ending on an exception of scan_url
ScanRaises_Break ==
    /\ ScanInFlight
    /\ scan[1].pc = "raised"
    /\ monitor' = [monitor EXCEPT !.pc = "stopped", !.returned = n_scans]
    /\ UNCHANGED << diff, config, scan_history, detected_changes, clock, n_scans, scan >>

\* scan_url has raised an Exception: except Exception logs it
ScanRaises ==
    /\ ScanInFlight
    /\ scan[1].pc = "raised"
    /\ monitor' = [monitor EXCEPT !.pc = "cooldown", !.returned = n_scans]
    /\ UNCHANGED << diff, config, scan_history, detected_changes, clock, n_scans, scan >>

\* time.sleep(5), then the next url of the for loop or, after the last
\* one, the end of the cycle
SleepBetweenUrls ==
    /\ monitor.pc = "sleep_url"
    /\ clock' = clock + UrlDelay
    /\ monitor' = IF monitor.i < Len(urls_to_monitor)
                  THEN [monitor EXCEPT !.pc = "for", !.i = @ + 1]
                  ELSE [monitor EXCEPT !.pc = "sleep_interval"]
    /\ UNCHANGED << diff, config, scan_history, detected_changes, n_scans, scan >>

\* time.sleep(interval), then the next cycle
SleepInterval ==
    /\ monitor.pc = "sleep_interval"
    /\ clock' = clock + ScanInterval
    /\ monitor' = [monitor EXCEPT !.pc = "for", !.i = 1]
    /\ UNCHANGED << diff, config, scan_history, detected_changes, n_scans, scan >>

\* time.sleep(60) in the except Exception handler, then the next cycle
SleepCooldown ==
    /\ monitor.pc = "cooldown"
    /\ clock' = clock + Cooldown
    /\ monitor' = [monitor EXCEPT !.pc = "for", !.i = 1]
    /\ UNCHANGED << diff, config, scan_history, detected_changes, n_scans, scan >>

\* KeyboardInterrupt in the try block outside scan_url (the for statement,
\* time.sleep(5), logger.info, time.sleep(interval)): except
\* KeyboardInterrupt breaks
InterruptLoop ==
    /\ \/ monitor.pc = "for" /\ monitor.returned = n_scans
       \/ monitor.pc \in { "sleep_url", "sleep_interval" }
    /\ monitor' = [monitor EXCEPT !.pc = "stopped", !.interrupts = @ + 1]
    /\ UNCHANGED << diff, config, scan_history, detected_changes, clock, n_scans, scan >>

\* KeyboardInterrupt in scan_url after the extraction (get_last_scan, the
\* comparison, send_alert, save_scan_result before its commit): it leaves
\* scan_url, the connection of save_scan_result is dropped uncommitted
InterruptScan ==
    /\ ScanInFlight
    /\ scan[1].pc \in { "lookup", "notify", "persist" }
    /\ scan' = [scan EXCEPT ![1] = [@ EXCEPT !.raised = KeyboardInterrupt, !.pc = "raised"]]
    /\ monitor' = [monitor EXCEPT !.pc = "stopped", !.interrupts = @ + 1,
                                  !.returned = n_scans]
    /\ UNCHANGED << diff, config, scan_history, detected_changes, clock, n_scans >>

\* KeyboardInterrupt in fetch_page, in md5 or in extract_xpath_structure
\* outside _get_element_xpath: it leaves scan_url
InterruptFetch(response) ==
    /\ monitor.pc = "for"
    /\ monitor.returned = n_scans
    /\ n_scans < MaxScans
    /\ n_scans' = n_scans + 1
    /\ scan' = [scan EXCEPT ![1] =
          [IdleFrame EXCEPT !.url = urls_to_monitor[monitor.i], !.response = response,
                            !.db_at_call = Database(scan_history, detected_changes),
                            !.raised = KeyboardInterrupt, !.pc = "raised"]]
    /\ monitor' = [monitor EXCEPT !.pc = "stopped", !.interrupts = @ + 1,
                                  !.returned = n_scans']
    /\ UNCHANGED << diff, config, scan_history, detected_changes, clock >>

\* KeyboardInterrupt inside _get_element_xpath for the element at: the bare
\* except swallows it, the element is recorded under "" and scan_url goes on
InterruptGetElementXpath(response, at) ==
    /\ monitor.pc = "for"
    /\ monitor.returned = n_scans
    /\ n_scans < MaxScans
    /\ ~not_html(fetch_page(response))
    /\ fetch_page(response)[1] \notin Unparseable
    /\ at \in DOMAIN extract_xpath_structure(fetch_page(response)[1]).elements
    /\ n_scans' = n_scans + 1
    /\ LET current_html == fetch_page(response)
       IN  scan' = [scan EXCEPT ![1] =
             [IdleFrame EXCEPT !.url = urls_to_monitor[monitor.i], !.response = response,
                               !.db_at_call = Database(scan_history, detected_changes),
                               !.pc = "lookup",
                               !.current_html = current_html,
                               !.current_hash = md5_hexdigest(current_html[1]),
                               !.current_structure =
                                   extract_xpath_structure_interrupted(current_html[1], at)]]
    /\ monitor' = [monitor EXCEPT !.interrupts = @ + 1]
    /\ UNCHANGED << diff, config, scan_history, detected_changes, clock >>

\* KeyboardInterrupt during time.sleep(60): raised inside an except clause,
\* it is not handled by the sibling except KeyboardInterrupt and leaves
\* monitor_urls
InterruptCooldown ==
    /\ monitor.pc = "cooldown"
    /\ monitor' = [monitor EXCEPT !.pc = "propagated", !.interrupts = @ + 1]
    /\ UNCHANGED << diff, config, scan_history, detected_changes, clock, n_scans, scan >>

NextMonitor ==
    \/ MonitorUrls
    \/ \E response \in ConcResponses : ScanUrl(response)
    \/ GetLastScan(1)
    \/ \E delivered \in BOOLEAN : SendAlert(1, delivered)
    \/ SaveScanResult(1)
    \/ SaveScanResultFails(1)
    \/ ScanReturns
    \/ ScanRaises
    \/ SleepBetweenUrls
    \/ SleepInterval
    \/ SleepCooldown
    \/ InterruptLoop
    \/ InterruptScan
    \/ \E response \in ConcResponses : InterruptFetch(response)
    \/ \E response \in ConcResponses, at \in Rows(XPathOrder) :
          InterruptGetElementXpath(response, at)
    \/ InterruptCooldown

SpecMonitor == InitMonitor /\ [][NextMonitor]_vars

(***************************************************************************)
(* compare_structures on its own: the structures extract_xpath_structure   *)
(* builds from a family of pages (a body with one or two paragraphs, with  *)
(* or without attributes on the first one, a table and a form), and {} ,   *)
(* which it returns when the page cannot be parsed.                        *)
(***************************************************************************)
Pages ==
    [p1 : { "Hello", "Goodbye" }, tail : { "", "more" }, p2 : BOOLEAN,
     attrs : 0..2, table : 0..2, form : 0..2]

\* doc.iter(): the elements of the page, keyed by getpath
PageTree(page) ==
       ( "/html" :> ElementSnapshot("html", "") )
    @@ ( "/html/body" :> ElementSnapshot("body", "") )
    @@ ( "/html/body/p[1]" :> [ElementSnapshot("p", page.p1) EXCEPT !.tail = page.tail] )
    @@ ( IF page.p2 THEN "/html/body/p[2]" :> ElementSnapshot("p", "World") ELSE EmptyDict )
    @@ ( CASE page.table = 0 -> EmptyDict
           [] page.table = 1 ->
                   ( "/html/body/table" :> ElementSnapshot("table", "") )
                @@ ( "/html/body/table/tr" :> ElementSnapshot("tr", "") )
                @@ ( "/html/body/table/tr/th" :> ElementSnapshot("th", "Name") )
           [] page.table = 2 ->
                   ( "/html/body/table" :> ElementSnapshot("table", "") )
                @@ ( "/html/body/table/tr" :> ElementSnapshot("tr", "") )
                @@ ( "/html/body/table/tr/th[1]" :> ElementSnapshot("th", "Name") )
                @@ ( "/html/body/table/tr/th[2]" :> ElementSnapshot("th", "Price") ) )
    @@ ( CASE page.form = 0 -> EmptyDict
           [] page.form = 1 ->
                   ( "/html/body/form" :> ElementSnapshot("form", "") )
                @@ ( "/html/body/form/input" :> ElementSnapshot("input", "") )
           [] page.form = 2 ->
                   ( "/html/body/form" :> ElementSnapshot("form", "") )
                @@ ( "/html/body/form/input" :> ElementSnapshot("input", "") )
                @@ ( "/html/body/form/select" :> ElementSnapshot("select", "") ) )

\* dict(element.attrib) of the elements that have attributes
PageAttributes(page) ==
    CASE page.attrs = 0 -> EmptyDict
      [] page.attrs = 1 -> ( "/html/body/p[1]" :> [class |-> "active"] )
      [] page.attrs = 2 -> ( "/html/body/p[1]" :> [class |-> "idle", id |-> "main"] )

\* the tables of the page, as the loop over doc.xpath('//table') records them
PageTables(page) ==
    CASE page.table = 0 -> EmptyDict
      [] page.table = 1 -> ( "/html/body/table" :> _extract_table_structure(
            Box("table", << Box("tr", << Leaf("th", "Name") >>) >>)) )
      [] page.table = 2 -> ( "/html/body/table" :> _extract_table_structure(
            Box("table", << Box("tr", << Leaf("th", "Name"), Leaf("th", "Price") >>) >>)) )

\* the forms of the page, as the loop over doc.xpath('//form') records them
PageForms(page) ==
    CASE page.form = 0 -> EmptyDict
      [] page.form = 1 -> ( "/html/body/form" :> _extract_form_structure(
            Box("form", << Leaf("input", "") >>)) )
      [] page.form = 2 -> ( "/html/body/form" :> _extract_form_structure(
            Box("form", << Leaf("input", ""), Leaf("select", "") >>)) )

PageStructure(page) ==
    [elements |-> PageTree(page), attributes |-> PageAttributes(page),
     tables |-> PageTables(page), forms |-> PageForms(page)]

Structures == { EmptyDict } \cup { PageStructure(page) : page \in Pages }

\* the arguments of a call of compare_structures, before the call
InitDiff ==
    /\ config = SampleConfig
    /\ scan_history = <<>>
    /\ detected_changes = <<>>
    /\ clock = 1
    /\ n_scans = 0
    /\ scan = [p \in Procs |-> IdleFrame]
    /\ monitor = MonitorOff
    /\ \E old_structure \in Structures, new_structure \in Structures :
          diff = [NoDiff EXCEPT !.old_structure = old_structure,
                                !.new_structure = new_structure]

\* compare_structures(old_structure, new_structure), and the call with the
\* arguments exchanged
CompareStructures ==
    /\ ~diff.called
    /\ diff' = [diff EXCEPT
          !.called = TRUE,
          !.changes = compare_structures(diff.old_structure, diff.new_structure, clock),
          !.reverse = compare_structures(diff.new_structure, diff.old_structure, clock)]
    /\ UNCHANGED << config, scan_history, detected_changes, clock, n_scans, scan, monitor >>

NextDiff == CompareStructures

SpecDiff == InitDiff /\ [][NextDiff]_vars

(***************************************************************************)
(* Scans of one URL whose page carries a table, or a form, that changes    *)
(* from scan to scan (create_sample_config: alerts disabled), the scans     *)
(* following each other within one second.                                 *)
(***************************************************************************)
TableResponses == { Response("", 200, html_content) : html_content \in TablePages }

FormResponses == { Response("", 200, html_content) : html_content \in FormPages }

InitPages ==
    /\ config = SampleConfig
    /\ scan_history = <<>>
    /\ detected_changes = <<>>
    /\ clock = 1
    /\ n_scans = 0
    /\ scan = [p \in Procs |-> IdleFrame]
    /\ monitor = MonitorOff
    /\ diff = NoDiff

NextTables ==
    \/ \E response \in TableResponses : FetchPage(1, SingleUrl, response)
    \/ GetLastScan(1)
    \/ SaveScanResult(1)

SpecTables == InitPages /\ [][NextTables]_vars

NextForms ==
    \/ \E response \in FormResponses : FetchPage(1, SingleUrl, response)
    \/ GetLastScan(1)
    \/ SaveScanResult(1)

SpecForms == InitPages /\ [][NextForms]_vars

(***************************************************************************)
(* Vocabulary of the properties.                                           *)
(***************************************************************************)
Db == Database(scan_history, detected_changes)

\* the fetch of the call failed: network error, timeout or error status
FetchFailed(f) == f.response.raised # "" \/ f.response.status >= 400

\* the call got a body and went on to hash and extract it
Fetched(f) == f.pc # "idle" /\ ~not_html(f.current_html)

\* html.fromstring failed on the body
ParseFailed(f) == Fetched(f) /\ f.current_html[1] \in Unparseable

\* the call is past get_last_scan
LookedUp(f) == Fetched(f) /\ f.pc # "lookup"

\* a change as the columns of detected_changes hold it
ChangeColumns(c) ==
    [change_type |-> c.change_type, xpath |-> c.xpath, old_value |-> c.old_value,
     new_value |-> c.new_value, element_type |-> c.element_type]

ChangeRowsOf(detected, id) ==
    MapSeq(SelectSeq(detected, LAMBDA d : d.scan_id = id), ChangeColumns)

RowsOfUrl(history, url) == { r \in Rows(history) : r.url = url }

\* the record the store holds of the scan of frame f
Recorded(f) ==
    /\ f.scan_id \in 1..Len(scan_history)
    /\ LET r == scan_history[f.scan_id]
       IN  /\ r.id = f.scan_id
           /\ r.url = f.url
           /\ r.html_hash = f.current_hash
           /\ r.xpath_structure = json_dumps(f.current_structure)
           /\ r.changes_detected = Len(f.changes)
    /\ ChangeRowsOf(detected_changes, f.scan_id) = MapSeq(f.changes, ChangeColumns)

\* the scan of frame f has written nothing
WroteNothing(f) == Db = f.db_at_call

(***************************************************************************)
(* C1: every scan that does not end in FAILED writes exactly one           *)
(* scan_history row; every scan that ends in FAILED (fetch failure or      *)
(* parse failure) writes no scan_history row and no detected_changes row.  *)
(***************************************************************************)
C1_OneRecordPerNonFailedScan ==
    \A p \in Procs :
        LET f == scan[p]
        IN  f.pc = "returned" =>
              IF FetchFailed(f) \/ not_html(f.current_html) \/ ParseFailed(f)
              THEN WroteNothing(f)
              ELSE /\ Len(scan_history) = Len(f.db_at_call.scan_history) + 1
                   /\ Recorded(f)

(***************************************************************************)
(* C2: a scan that finds no scan_history row of its URL computes no diff,  *)
(* has an empty changeset, sends no alert and, when it returns, returns    *)
(* False having written exactly one scan_history row of the URL, with      *)
(* changes_detected = 0 and no detected_changes row.                       *)
(***************************************************************************)
C2_BaselineScan ==
    \A p \in Procs :
        LET f == scan[p]
        IN  (LookedUp(f) /\ RowsOfUrl(f.db_at_call.scan_history, f.url) = {}) =>
              /\ f.last_scan = None
              /\ ~f.compared
              /\ f.changes = <<>>
              /\ f.alerts = <<>>
              /\ f.pc # "notify"
              /\ f.raised \in { "", "sqlite3.Error" }
              /\ f.pc = "returned" =>
                   /\ f.result = FALSE
                   /\ Recorded(f)
                   /\ RowsOfUrl(scan_history, f.url) = { scan_history[f.scan_id] }
                   /\ scan_history[f.scan_id].changes_detected = 0
                   /\ detected_changes = f.db_at_call.detected_changes

C2_Witness ==
    \E p \in Procs :
        /\ scan[p].pc = "returned"
        /\ Fetched(scan[p])
        /\ scan[p].last_scan = None
        /\ scan[p].scan_id = 3
        /\ detected_changes # <<>>

(***************************************************************************)
(* C3: when the content fetched by a scan is byte-identical to the content *)
(* of the preceding successful scan of the same URL, the scan has an empty *)
(* changeset and never invokes compare_structures.                         *)
(***************************************************************************)
LastWritten(history, url) ==
    CHOOSE r \in RowsOfUrl(history, url) :
        \A q \in RowsOfUrl(history, url) : q.id <= r.id

C3_UnchangedScan ==
    \A p \in Procs :
        LET f == scan[p]
            before == f.db_at_call.scan_history
        IN  ( /\ LookedUp(f)
              /\ RowsOfUrl(before, f.url) # {}
              /\ LastWritten(before, f.url).html_hash = f.current_hash ) =>
              /\ ~f.compared
              /\ f.changes = <<>>

(***************************************************************************)
(* C4: when the fetch fails, scan_url returns False, leaves the store      *)
(* unchanged, runs no diff and sends no alert.                             *)
(***************************************************************************)
C4_FetchFailure ==
    \A p \in Procs :
        LET f == scan[p]
        IN  FetchFailed(f) =>
              /\ f.pc = "returned"
              /\ f.result = FALSE
              /\ f.raised = ""
              /\ WroteNothing(f)
              /\ ~f.compared
              /\ f.alerts = <<>>

C4_Witness ==
    \E p \in Procs :
        /\ FetchFailed(scan[p])
        /\ scan[p].response.status = 404
        /\ scan[p].pc = "returned"
        /\ RowsOfUrl(scan_history, scan[p].url) # {}
        /\ LastWritten(scan_history, scan[p].url).html_hash
             # md5_hexdigest(scan[p].response.text)

(***************************************************************************)
(* C5: when structure extraction fails on the fetched markup, the scan is  *)
(* aborted like a failed fetch: nothing is persisted, no diff is computed  *)
(* against the prior record and no alert is sent.                          *)
(***************************************************************************)
C5_ParseFailure ==
    \A p \in Procs :
        LET f == scan[p]
        IN  ParseFailed(f) =>
              /\ WroteNothing(f)
              /\ ~f.compared
              /\ f.alerts = <<>>

(***************************************************************************)
(* C6: when the prior record has a different hash and its stored text is   *)
(* not a valid structure, the scan does not crash: no diff result, no      *)
(* alert, and the scan record it persists has changes_detected = 0 and     *)
(* the current structure.                                                  *)
(***************************************************************************)
C6_CorruptPriorStructure ==
    \A p \in Procs :
        LET f == scan[p]
        IN  ( /\ LookedUp(f)
              /\ f.last_scan # None
              /\ f.last_scan[1] # f.current_hash
              /\ ~IsDict(f.last_scan[2]) ) =>
              /\ f.raised \in { "", "sqlite3.Error" }
              /\ f.changes = <<>>
              /\ f.alerts = <<>>
              /\ f.pc = "returned" =>
                   (Recorded(f) /\ scan_history[f.scan_id].changes_detected = 0)

(***************************************************************************)
(* C7: a scan whose store write fails ends in an exception raised to the   *)
(* caller with nothing committed, and a scan that returns a result to the  *)
(* caller after a successful fetch has its record, with every change of    *)
(* its changeset, in the store.                                            *)
(***************************************************************************)
C7_PersistenceDurability ==
    \A p \in Procs :
        LET f == scan[p]
        IN  /\ (f.pc = "returned" /\ Fetched(f)) => Recorded(f)
            /\ f.raised = "sqlite3.Error" => (f.pc = "raised" /\ WroteNothing(f))

C7_Witness ==
    \E p \in Procs :
        /\ scan[p].pc = "raised"
        /\ scan[p].raised = "sqlite3.Error"
        /\ scan[p].changes # <<>>

(***************************************************************************)
(* C8: each scan_history row's changes_detected is the number of           *)
(* detected_changes rows with its id as scan_id, every detected_changes    *)
(* row references an existing scan_history row, and the rows that          *)
(* reference a scan are the changes that scan produced.                    *)
(***************************************************************************)
C8_ChangeRowsMatchScan ==
    /\ \A i \in 1..Len(scan_history) :
         /\ scan_history[i].id = i
         /\ scan_history[i].changes_detected
              = Len(SelectSeq(detected_changes, LAMBDA d : d.scan_id = i))
    /\ \A j \in 1..Len(detected_changes) :
         detected_changes[j].scan_id \in 1..Len(scan_history)
    /\ \A p \in Procs :
         (scan[p].pc = "returned" /\ Fetched(scan[p])) =>
            ChangeRowsOf(detected_changes, scan[p].scan_id)
               = MapSeq(scan[p].changes, ChangeColumns)

C8_Witness ==
    \E p \in Procs :
        /\ scan[p].pc = "returned"
        /\ scan[p].scan_id = 3
        /\ scan[p].changes # <<>>
        /\ scan_history[2].changes_detected > 0

(***************************************************************************)
(* C9: no alert for a scan's changeset is sent before that scan's record   *)
(* has been written to the store.                                          *)
(***************************************************************************)
C9_PersistBeforeNotify ==
    \A p \in Procs : scan[p].alerts # <<>> => Recorded(scan[p])

(***************************************************************************)
(* C10: with alerts configured, a scan with a non-empty changeset invokes  *)
(* send_alert exactly once per recipient, in list order, with the full     *)
(* changeset; a scan with an empty changeset never invokes it; a failed    *)
(* delivery neither stops the remaining deliveries nor fails the scan nor  *)
(* changes what is persisted.                                              *)
(***************************************************************************)
AlertedRecipients(f) == MapSeq(f.alerts, LAMBDA a : a.recipient)

C10_AlertPerRecipient ==
    \A p \in Procs :
        LET f == scan[p]
        IN  /\ f.changes = <<>> => f.alerts = <<>>
            /\ \A i \in 1..Len(f.alerts) :
                 /\ f.alerts[i].changes = f.changes
                 /\ f.alerts[i].url = f.url
            /\ f.pc = "notify" =>
                 AlertedRecipients(f) = SubSeq(config.recipients, 1, f.next_recipient - 1)
            /\ ( /\ f.changes # <<>>
                 /\ alerts_configured(config)
                 /\ f.pc \in { "persist", "returned", "raised" } ) =>
                 AlertedRecipients(f) = config.recipients
            /\ f.raised # "SMTPException"
            /\ (f.pc = "returned" /\ f.alerts # <<>>) =>
                 (f.result = TRUE /\ Recorded(f))

C10_Witness ==
    \E p \in Procs :
        /\ scan[p].pc = "returned"
        /\ Len(scan[p].alerts) = 2
        /\ ~scan[p].alerts[1].delivered
        /\ scan[p].alerts[2].delivered
        /\ scan[p].result = TRUE
        /\ Recorded(scan[p])

(***************************************************************************)
(* C11: a scan that reaches its return after persisting returns True       *)
(* exactly when its changeset is non-empty, which is exactly when the      *)
(* scan_history row it wrote has changes_detected > 0; a baseline scan, an *)
(* unchanged scan and a scan over an undecodable prior structure return    *)
(* False.                                                                  *)
(***************************************************************************)
C11_ReturnsWhetherChanged ==
    \A p \in Procs :
        LET f == scan[p]
        IN  (f.pc = "returned" /\ Fetched(f)) =>
              /\ f.result = (f.changes # <<>>)
              /\ f.scan_id \in 1..Len(scan_history)
              /\ f.result = (scan_history[f.scan_id].changes_detected > 0)
              /\ ( \/ f.last_scan = None
                   \/ f.last_scan[1] = f.current_hash
                   \/ ~IsDict(f.last_scan[2]) ) => f.result = FALSE

C11_Witness ==
    \E p \in Procs :
        /\ scan[p].pc = "returned"
        /\ scan[p].result = TRUE
        /\ scan_history[scan[p].scan_id].changes_detected = 2
        /\ \E j \in 1..Len(scan_history) : ~IsDict(scan_history[j].xpath_structure)

(***************************************************************************)
(* C16: get_last_scan(url) returns the hash and structure of the most      *)
(* recently written scan record of the URL, None when there is none, also  *)
(* when several records of the URL carry the same scan_time.               *)
(***************************************************************************)
C16_LastScanIsLatestRecord ==
    \A p \in Procs :
        LET f == scan[p]
            before == f.db_at_call.scan_history
        IN  LookedUp(f) =>
              f.last_scan = IF RowsOfUrl(before, f.url) = {} THEN None
                            ELSE << LastWritten(before, f.url).html_hash,
                                    LastWritten(before, f.url).xpath_structure >>

(***************************************************************************)
(* C12: two scans of the same URL never both take the baseline decision:   *)
(* no two callers hold a completed scan of one URL that each found no      *)
(* prior record and each wrote its record.                                 *)
(***************************************************************************)
BaselineRecorded(f) ==
    /\ f.pc = "returned"
    /\ Fetched(f)
    /\ f.last_scan = None

C12_SingleBaselineDecision ==
    \A p \in DOMAIN scan : \A q \in DOMAIN scan \ { p } :
        ~ ( /\ scan[p].url = scan[q].url
            /\ BaselineRecorded(scan[p])
            /\ BaselineRecorded(scan[q]) )

(***************************************************************************)
(* C13: in every interleaving of concurrent scans, the change rows of a    *)
(* scan carry that scan's own scan_history id, and get_last_scan(url)      *)
(* never returns a record written for another URL.                         *)
(***************************************************************************)
LastScanValues(history, url) ==
    { << r.html_hash, r.xpath_structure >> : r \in RowsOfUrl(history, url) }

C13_NoCrossUrlInterference ==
    /\ \A p \in DOMAIN scan :
         LET f == scan[p]
         IN  /\ (f.pc = "returned" /\ Fetched(f)) => Recorded(f)
             /\ (LookedUp(f) /\ f.last_scan # None) =>
                    f.last_scan \in LastScanValues(scan_history, f.url)
    /\ \A url \in Urls :
         get_last_scan(scan_history, url) =
            IF RowsOfUrl(scan_history, url) = {} THEN { None }
            ELSE get_last_scan(scan_history, url) \cap LastScanValues(scan_history, url)
    /\ \A j \in 1..Len(detected_changes) :
         /\ detected_changes[j].scan_id \in 1..Len(scan_history)
         /\ Len(ChangeRowsOf(detected_changes, detected_changes[j].scan_id)) =
               scan_history[detected_changes[j].scan_id].changes_detected

C13_Witness ==
    /\ scan[1].pc = "returned"
    /\ scan[2].pc = "returned"
    /\ scan[1].url # scan[2].url
    /\ scan[1].changes # <<>>
    /\ scan[1].scan_id = 3
    /\ scan[2].scan_id = 2
    /\ Len(scan[1].db_at_call.scan_history) = 1
    /\ Len(scan[2].db_at_call.scan_history) = 1

(***************************************************************************)
(* C14: a KeyboardInterrupt arriving at any point of monitor_urls (during  *)
(* a scan, a sleep or the error cooldown) ends the loop, and the store     *)
(* never holds a partial scan: every scan_history row has all of its       *)
(* detected_changes rows, and an interrupted scan has written nothing.     *)
(***************************************************************************)
LoopEnded == monitor.pc \in { "stopped", "propagated" }

C14_CancellationEndsLoop ==
    /\ monitor.interrupts > 0 => LoopEnded
    /\ \A j \in 1..Len(scan_history) :
          Len(ChangeRowsOf(detected_changes, j)) = scan_history[j].changes_detected
    /\ \A j \in 1..Len(detected_changes) :
          detected_changes[j].scan_id \in 1..Len(scan_history)
    /\ scan[1].raised = KeyboardInterrupt => WroteNothing(scan[1])

(***************************************************************************)
(* C15: in monitor_urls an exception raised by a scan of the cycle (a      *)
(* store write failure included) never ends the loop: the handler is       *)
(* entered, the loop waits the cooldown of 60 seconds and then starts a    *)
(* new cycle at the first URL; only a KeyboardInterrupt ends the loop.     *)
(***************************************************************************)
ScanFailed ==
    /\ ScanInFlight
    /\ scan[1].pc = "raised"
    /\ scan[1].raised # KeyboardInterrupt

ErrorHandled ==
    /\ (ScanFailed /\ monitor' # monitor) => monitor'.pc = "cooldown"
    /\ (monitor.pc = "cooldown" /\ monitor' # monitor) =>
          \/ /\ monitor'.pc = "for"
             /\ monitor'.i = 1
             /\ clock' = clock + Cooldown
          \/ monitor'.interrupts = monitor.interrupts + 1

C15_ErrorNeverEndsLoop ==
    /\ [](LoopEnded => monitor.interrupts > 0)
    /\ [][ErrorHandled]_vars

C15_Witness ==
    /\ monitor.pc = "for"
    /\ monitor.i = 1
    /\ monitor.interrupts = 0
    /\ monitor.returned = n_scans
    /\ scan[1].raised = "sqlite3.Error"
    /\ scan[1].url = urls_to_monitor[2]
    /\ clock = 1 + UrlDelay + Cooldown

(***************************************************************************)
(* Vocabulary of the properties of compare_structures.                     *)
(***************************************************************************)
AddedTypes   == { "element_added", "attribute_added", "table_added", "form_added" }
RemovedTypes == { "element_removed", "attribute_removed", "table_removed", "form_removed" }

ElementsOf(structure)   == Get(structure, "elements", EmptyDict)
AttributesOf(structure) == Get(structure, "attributes", EmptyDict)
TablesOf(structure)     == Get(structure, "tables", EmptyDict)
FormsOf(structure)      == Get(structure, "forms", EmptyDict)

IsEmptyStructure(structure) ==
    /\ ElementsOf(structure) = EmptyDict
    /\ AttributesOf(structure) = EmptyDict
    /\ TablesOf(structure) = EmptyDict
    /\ FormsOf(structure) = EmptyDict

\* the items of a structure, as (kind, xpath of the change that reports it)
Items(structure) ==
         { << "element", xpath >> : xpath \in DOMAIN ElementsOf(structure) }
    \cup UNION { { << "attribute", xpath \o "/@" \o attr_name >> :
                        attr_name \in DOMAIN AttributesOf(structure)[xpath] } :
                 xpath \in DOMAIN AttributesOf(structure) }
    \cup { << "table", xpath >> : xpath \in DOMAIN TablesOf(structure) }
    \cup { << "form", xpath >> : xpath \in DOMAIN FormsOf(structure) }

TypesOf(changes) == { changes[i].change_type : i \in DOMAIN changes }

(***************************************************************************)
(* C17: for every structure A, compare_structures(A, A) is the empty list. *)
(***************************************************************************)
C17_CompareWithItselfIsEmpty ==
    (diff.called /\ diff.old_structure = diff.new_structure) => diff.changes = <<>>

C17_Witness ==
    /\ diff.called
    /\ diff.old_structure = diff.new_structure
    /\ DOMAIN AttributesOf(diff.old_structure) # {}
    /\ DOMAIN TablesOf(diff.old_structure) # {}
    /\ DOMAIN FormsOf(diff.old_structure) # {}
    /\ diff.changes = <<>>

(***************************************************************************)
(* C18: the added and removed changes of compare_structures(A, B) are      *)
(* those of compare_structures(B, A) with the change types added and       *)
(* removed exchanged and old_value and new_value exchanged, on the same    *)
(* xpaths.                                                                 *)
(***************************************************************************)
AddedRemoved(changes) ==
    { c \in Rows(changes) : c.change_type \in AddedTypes \cup RemovedTypes }

Opposite(change_type) ==
    CASE change_type = "element_added"     -> "element_removed"
      [] change_type = "element_removed"   -> "element_added"
      [] change_type = "attribute_added"   -> "attribute_removed"
      [] change_type = "attribute_removed" -> "attribute_added"
      [] change_type = "table_added"       -> "table_removed"
      [] change_type = "table_removed"     -> "table_added"
      [] change_type = "form_added"        -> "form_removed"
      [] change_type = "form_removed"      -> "form_added"

Exchanged(c) ==
    [c EXCEPT !.change_type = Opposite(c.change_type),
              !.old_value = c.new_value, !.new_value = c.old_value]

C18_DiffSymmetry ==
    diff.called =>
        /\ { Exchanged(c) : c \in AddedRemoved(diff.changes) } = AddedRemoved(diff.reverse)
        /\ { c.xpath : c \in AddedRemoved(diff.changes) } =
           { c.xpath : c \in AddedRemoved(diff.reverse) }

C18_Witness ==
    /\ diff.called
    /\ { "element_added", "element_removed", "attribute_removed", "table_added",
         "form_removed" } \subseteq TypesOf(diff.changes)
    /\ { "element_added", "element_removed", "attribute_added", "table_removed",
         "form_added" } \subseteq TypesOf(diff.reverse)

(***************************************************************************)
(* C19: with an empty previous structure compare_structures emits only     *)
(* added changes, exactly one for each element path, attribute (path,      *)
(* name), table path and form path of the current structure; with an empty *)
(* current structure it emits only removed changes, exactly one for each   *)
(* such item of the previous structure.                                    *)
(***************************************************************************)
KindOf(change_type) ==
    CASE change_type \in { "element_added", "element_removed" }     -> "element"
      [] change_type \in { "attribute_added", "attribute_removed" } -> "attribute"
      [] change_type \in { "table_added", "table_removed" }         -> "table"
      [] change_type \in { "form_added", "form_removed" }           -> "form"

OnePerItem(changes, types, structure) ==
    /\ TypesOf(changes) \subseteq types
    /\ { << KindOf(changes[i].change_type), changes[i].xpath >> : i \in DOMAIN changes }
          = Items(structure)
    /\ Len(changes) = Cardinality(Items(structure))

C19_EmptySide ==
    diff.called =>
        /\ IsEmptyStructure(diff.old_structure) =>
              OnePerItem(diff.changes, AddedTypes, diff.new_structure)
        /\ IsEmptyStructure(diff.new_structure) =>
              OnePerItem(diff.changes, RemovedTypes, diff.old_structure)

C19_Witness ==
    /\ diff.called
    /\ IsEmptyStructure(diff.old_structure)
    /\ Cardinality(DOMAIN Get(AttributesOf(diff.new_structure), "/html/body/p[1]",
                               EmptyDict)) = 2
    /\ DOMAIN TablesOf(diff.new_structure) # {}
    /\ DOMAIN FormsOf(diff.new_structure) # {}
    /\ Len(diff.changes) = Cardinality(Items(diff.new_structure))
    /\ TypesOf(diff.changes) = AddedTypes

(***************************************************************************)
(* C20: for every element path of both structures, _compare_elements emits *)
(* exactly one element_text_changed change (xpath the path, old_value the  *)
(* old text, new_value the new text, element_type the tag) when the texts  *)
(* differ and no change for the path when they are equal; when a text is   *)
(* the only difference of the structures, the changeset has one change.    *)
(***************************************************************************)
ElementChangesAt(changes, xpath) ==
    SelectSeq(changes, LAMBDA c :
        /\ c.xpath = xpath
        /\ c.change_type \in { "element_added", "element_removed", "element_text_changed" })

OnlyTextDiffers(old_structure, new_structure, xpath) ==
    /\ xpath \in DOMAIN ElementsOf(old_structure) \cap DOMAIN ElementsOf(new_structure)
    /\ ElementsOf(old_structure)[xpath].text # ElementsOf(new_structure)[xpath].text
    /\ new_structure = [old_structure EXCEPT
          !.elements[xpath].text = ElementsOf(new_structure)[xpath].text]

C20_TextChange ==
    diff.called =>
        LET old_elements == ElementsOf(diff.old_structure)
            new_elements == ElementsOf(diff.new_structure)
        IN  \A xpath \in DOMAIN old_elements \cap DOMAIN new_elements :
              /\ ElementChangesAt(diff.changes, xpath) =
                    IF old_elements[xpath].text # new_elements[xpath].text
                    THEN << ChangeDetails("element_text_changed", xpath,
                                Some(old_elements[xpath].text),
                                Some(new_elements[xpath].text),
                                old_elements[xpath].tag, clock) >>
                    ELSE <<>>
              /\ OnlyTextDiffers(diff.old_structure, diff.new_structure, xpath) =>
                    Len(diff.changes) = 1

C20_Witness ==
    /\ diff.called
    /\ OnlyTextDiffers(diff.old_structure, diff.new_structure, "/html/body/p[1]")
    /\ ElementsOf(diff.old_structure)["/html/body/p[1]"].tail = "more"
    /\ DOMAIN TablesOf(diff.old_structure) # {}
    /\ Len(diff.changes) = 1
    /\ diff.changes[1].old_value = Some("Hello")
    /\ diff.changes[1].new_value = Some("Goodbye")

(***************************************************************************)
(* C21: for every path and attribute name, _compare_attributes emits       *)
(* exactly one change with xpath "<path>/@<name>" and element_type         *)
(* "attribute" when the attribute differs between the sides:               *)
(* attribute_added if the name is only in current, attribute_removed if    *)
(* only in previous, attribute_modified if in both with different values;  *)
(* nothing for equal values, nothing for a path without attributes.        *)
(***************************************************************************)
AttributeValue(structure, xpath, attr_name) ==
    GetOpt(Get(AttributesOf(structure), xpath, EmptyDict), attr_name)

AttributeChanges(changes) == SelectSeq(changes, LAMBDA c : c.element_type = "attribute")

ExpectedAttributeChange(old_value, new_value, xpath, attr_name, timestamp) ==
    IF old_value = new_value THEN <<>>
    ELSE << ChangeDetails(IF old_value = None THEN "attribute_added"
                          ELSE IF new_value = None THEN "attribute_removed"
                          ELSE "attribute_modified",
                          xpath \o "/@" \o attr_name, old_value, new_value,
                          "attribute", timestamp) >>

C21_AttributeChanges ==
    diff.called =>
        /\ \A xpath \in Rows(XPathOrder), attr_name \in Rows(AttrOrder) :
              SelectSeq(AttributeChanges(diff.changes),
                        LAMBDA c : c.xpath = xpath \o "/@" \o attr_name)
                = ExpectedAttributeChange(
                      AttributeValue(diff.old_structure, xpath, attr_name),
                      AttributeValue(diff.new_structure, xpath, attr_name),
                      xpath, attr_name, clock)
        /\ Len(AttributeChanges(diff.changes)) =
              Cardinality({ pair \in Rows(XPathOrder) \X Rows(AttrOrder) :
                  AttributeValue(diff.old_structure, pair[1], pair[2])
                    # AttributeValue(diff.new_structure, pair[1], pair[2]) })

C21_Witness ==
    /\ diff.called
    /\ AttributeValue(diff.old_structure, "/html/body/p[1]", "class") = Some("active")
    /\ AttributeValue(diff.new_structure, "/html/body/p[1]", "class") = Some("idle")
    /\ { c.change_type : c \in Rows(AttributeChanges(diff.changes)) }
          = { "attribute_modified", "attribute_added" }
    /\ Len(AttributeChanges(diff.changes)) = 2

(***************************************************************************)
(* Vocabulary of the properties of a scan that compared two structures.    *)
(***************************************************************************)
\* scan_url has called compare_structures and it has returned
Diffed(f) == LookedUp(f) /\ f.compared /\ f.raised = ""

PreviousStructure(f) == json_loads(f.last_scan[2])

TableTypes ==
    { "table_added", "table_removed", "table_headers_changed", "table_columns_changed" }

FormTypes == { "form_added", "form_removed", "form_inputs_changed" }

\* the changes of the given types at xpath, without their timestamps
ChangesAt(changes, types, xpath) ==
    MapSeq(SelectSeq(changes, LAMBDA c : c.change_type \in types /\ c.xpath = xpath),
           ChangeColumns)

Change(change_type, xpath, old_value, new_value, element_type) ==
    ChangeColumns(ChangeDetails(change_type, xpath, old_value, new_value, element_type, 0))

(***************************************************************************)
(* C22: for a table path of both structures, _compare_tables emits         *)
(* table_headers_changed exactly when the header sequences differ and      *)
(* table_columns_changed (old and new count as strings) exactly when       *)
(* column_count differs, each independently; with equal headers and        *)
(* differing column_count the single table change is table_columns_changed,*)
(* and a common path gets no table_added or table_removed.                 *)
(***************************************************************************)
C22_CommonTable ==
    \A p \in Procs :
        LET f == scan[p]
        IN  Diffed(f) =>
              \A xpath \in DOMAIN TablesOf(PreviousStructure(f))
                             \cap DOMAIN TablesOf(f.current_structure) :
                 LET old_table == TablesOf(PreviousStructure(f))[xpath]
                     new_table == TablesOf(f.current_structure)[xpath]
                 IN  ChangesAt(f.changes, TableTypes, xpath) =
                          ( IF old_table.headers # new_table.headers
                            THEN << Change("table_headers_changed", xpath,
                                           Some(py_str(old_table.headers)),
                                           Some(py_str(new_table.headers)), "table") >>
                            ELSE <<>> )
                       \o ( IF old_table.column_count # new_table.column_count
                            THEN << Change("table_columns_changed", xpath,
                                           Some(ToString(old_table.column_count)),
                                           Some(ToString(new_table.column_count)),
                                           "table") >>
                            ELSE <<>> )

C22_Witness ==
    \E p \in Procs :
        LET f == scan[p]
        IN  /\ Diffed(f)
            /\ f.pc = "returned"
            /\ TablesOf(PreviousStructure(f)) =
                  ( "/html/body/table" :>
                       [headers |-> << "Name" >>, row_count |-> 1, column_count |-> 1] )
            /\ TablesOf(f.current_structure) =
                  ( "/html/body/table" :>
                       [headers |-> << "Name" >>, row_count |-> 1, column_count |-> 2] )
            /\ ChangesAt(f.changes, TableTypes, "/html/body/table") =
                  << Change("table_columns_changed", "/html/body/table",
                            Some("1"), Some("2"), "table") >>

(***************************************************************************)
(* C23: when the tables of two structures differ only in the row_count of  *)
(* a table of both (headers and column_count equal), compare_structures    *)
(* emits no table change, so a scan of such a change persists              *)
(* changes_detected = 0 and returns False.                                 *)
(***************************************************************************)
OnlyRowCountDiffers(old_structure, new_structure) ==
    /\ DOMAIN TablesOf(old_structure) = DOMAIN TablesOf(new_structure)
    /\ TablesOf(old_structure) # TablesOf(new_structure)
    /\ \A xpath \in DOMAIN TablesOf(old_structure) :
          /\ TablesOf(old_structure)[xpath].headers = TablesOf(new_structure)[xpath].headers
          /\ TablesOf(old_structure)[xpath].column_count
                = TablesOf(new_structure)[xpath].column_count

RowCountScan(f) ==
    /\ Diffed(f)
    /\ f.pc = "returned"
    /\ OnlyRowCountDiffers(PreviousStructure(f), f.current_structure)

NoTableChange(changes) == TypesOf(changes) \cap TableTypes = {}

C23_RowCountUnreported ==
    \A p \in Procs :
        LET f == scan[p]
        IN  RowCountScan(f) =>
              /\ NoTableChange(f.changes)
              /\ scan_history[f.scan_id].changes_detected = 0
              /\ f.result = FALSE

(***************************************************************************)
(* C23 as amended: such a scan has no table change, but the rows added or  *)
(* removed are reported as element_added or element_removed changes: the   *)
(* scan persists changes_detected > 0 and returns True.                    *)
(***************************************************************************)
C23_RowCountReportedAsElements ==
    \A p \in Procs :
        LET f == scan[p]
        IN  RowCountScan(f) =>
              /\ NoTableChange(f.changes)
              /\ TypesOf(f.changes) \cap { "element_added", "element_removed" } # {}
              /\ scan_history[f.scan_id].changes_detected = Len(f.changes)
              /\ scan_history[f.scan_id].changes_detected > 0
              /\ f.result = TRUE

C23_Witness ==
    \E p \in Procs :
        LET f == scan[p]
        IN  /\ RowCountScan(f)
            /\ TablesOf(PreviousStructure(f))["/html/body/table"].row_count = 1
            /\ TablesOf(f.current_structure)["/html/body/table"].row_count = 2
            /\ f.result = TRUE

(***************************************************************************)
(* C24: for every form path _compare_forms emits exactly one change,       *)
(* form_added if the path is only in current, form_removed if only in      *)
(* previous, form_inputs_changed if it is in both and the input sequences  *)
(* are not equal as whole sequences (a reordering is a change), and        *)
(* nothing when the sequences are equal.                                   *)
(***************************************************************************)
ExpectedFormChange(old_forms, new_forms, xpath) ==
    IF xpath \notin DOMAIN old_forms
    THEN << Change("form_added", xpath, None, Some(py_str(new_forms[xpath])), "form") >>
    ELSE IF xpath \notin DOMAIN new_forms
    THEN << Change("form_removed", xpath, Some(py_str(old_forms[xpath])), None, "form") >>
    ELSE IF old_forms[xpath].inputs # new_forms[xpath].inputs
    THEN << Change("form_inputs_changed", xpath, Some(py_str(old_forms[xpath].inputs)),
                   Some(py_str(new_forms[xpath].inputs)), "form") >>
    ELSE <<>>

C24_FormChanges ==
    \A p \in Procs :
        LET f == scan[p]
        IN  Diffed(f) =>
              LET old_forms == FormsOf(PreviousStructure(f))
                  new_forms == FormsOf(f.current_structure)
              IN  /\ \A xpath \in DOMAIN old_forms \cup DOMAIN new_forms :
                        ChangesAt(f.changes, FormTypes, xpath)
                          = ExpectedFormChange(old_forms, new_forms, xpath)
                  /\ \A i \in DOMAIN f.changes :
                        f.changes[i].change_type \in FormTypes =>
                           f.changes[i].xpath \in DOMAIN old_forms \cup DOMAIN new_forms

C24_Witness ==
    \E p \in Procs :
        LET f == scan[p]
        IN  /\ Diffed(f)
            /\ f.pc = "returned"
            /\ f.response.text = FormSwappedInputsHtml
            /\ DOMAIN FormsOf(PreviousStructure(f)) = { "/html/body/form" }
            /\ Len(FormsOf(PreviousStructure(f))["/html/body/form"].inputs) = 2
            /\ TypesOf(f.changes) \cap FormTypes = { "form_inputs_changed" }

(***************************************************************************)
(* C25: for every table node, column_count is the number of td/th children *)
(* of the table's first row (0 when the table has no rows) and row_count   *)
(* is the number of rows of the table; the rows and cells of a table       *)
(* nested inside a cell are not counted for the outer table.               *)
(***************************************************************************)
ChildrenWithTag(element, tags) == SelectSeq(element.children, LAMBDA e : e.tag \in tags)

\* the rows of the table itself: its tr children and those of its sections
OwnRows(table) ==
    Flatten([i \in DOMAIN table.children |->
        LET child == table.children[i]
        IN  IF child.tag = "tr" THEN << child >>
            ELSE IF child.tag \in { "thead", "tbody", "tfoot" }
            THEN ChildrenWithTag(child, { "tr" })
            ELSE <<>>])

TablesOfTree(doc) ==
    SelectSeq(Located(doc, "/" \o doc.tag), LAMBDA l : l.element.tag = "table")

C25_TableCounts ==
    \A p \in Procs :
        LET f == scan[p]
        IN  (Fetched(f) /\ ~ParseFailed(f)) =>
              LET tables == TablesOfTree(html_fromstring(f.current_html[1]))
              IN  \A i \in DOMAIN tables :
                    LET table == tables[i].element
                        extracted == TablesOf(f.current_structure)[tables[i].xpath]
                    IN  /\ extracted.row_count = Len(OwnRows(table))
                        /\ extracted.column_count =
                              IF OwnRows(table) = <<>> THEN 0
                              ELSE Len(ChildrenWithTag(OwnRows(table)[1], { "td", "th" }))

(***************************************************************************)
(* C26: a content change is reported once: if the page changed between the *)
(* recorded scans n-1 and n of a URL and is byte-identical in scan n+1,    *)
(* then scan n+1 reports no changes and sends no notification.             *)
(***************************************************************************)
\* the last two records of the URL differ in their hash
ChangedAtLastRecord(history, url) ==
    /\ RowsOfUrl(history, url) # {}
    /\ \E earlier \in RowsOfUrl(history, url) :
          /\ earlier.id < LastWritten(history, url).id
          /\ \A r \in RowsOfUrl(history, url) :
                r.id < LastWritten(history, url).id => r.id <= earlier.id
          /\ earlier.html_hash # LastWritten(history, url).html_hash

C26_ChangeReportedOnce ==
    \A p \in Procs :
        LET f == scan[p]
            before == f.db_at_call.scan_history
        IN  ( /\ LookedUp(f)
              /\ ChangedAtLastRecord(before, f.url)
              /\ f.current_hash = LastWritten(before, f.url).html_hash ) =>
                /\ f.changes = <<>>
                /\ f.alerts = <<>>
                /\ f.pc = "returned" => ~f.result

(***************************************************************************)
(* C27: in monitor_urls without cancellation every URL of the list is      *)
(* scanned infinitely often, in list order within each cycle, also when    *)
(* the scan of an earlier URL raises an error in every cycle.  What a      *)
(* finite run shows of it: the scans of a cycle follow the list order, and *)
(* a new cycle is started only after the last URL of the list has had its  *)
(* scan, so that no URL is passed over however often an earlier one fails. *)
(***************************************************************************)
StartsCycle == monitor.pc \in { "sleep_interval", "cooldown" } /\ monitor'.pc = "for"

EveryUrlInEveryCycle ==
    monitor.interrupts = 0 =>
        /\ StartsCycle => (monitor'.i = 1 /\ monitor.i = Len(urls_to_monitor))
        /\ (monitor.pc = "sleep_url" /\ monitor'.pc = "for") => monitor'.i = monitor.i + 1
        /\ (ScanInFlight /\ scan[1].pc = "lookup") => scan[1].url = urls_to_monitor[monitor.i]

C27_EveryUrlScanned == [][EveryUrlInEveryCycle]_vars

(***************************************************************************)
(* C28: a fetch that succeeds with an empty body is handled like a fetch   *)
(* failure: scan_url returns False without hashing, extracting, persisting *)
(* or notifying, as for a failed fetch or a scan without changes.          *)
(***************************************************************************)
EmptyBody(f) ==
    /\ f.pc # "idle"
    /\ f.response.raised = ""
    /\ f.response.status < 400
    /\ f.response.text = ""

C28_EmptyBody ==
    \A p \in Procs :
        LET f == scan[p]
        IN  EmptyBody(f) =>
              /\ f.pc = "returned"
              /\ f.result = FALSE
              /\ f.raised = ""
              /\ f.current_hash = ""
              /\ f.current_structure = EmptyDict
              /\ ~f.compared
              /\ f.alerts = <<>>
              /\ WroteNothing(f)

C28_Witness ==
    \E p \in Procs :
        /\ EmptyBody(scan[p])
        /\ scan[p].response.status = 200
        /\ scan[p].pc = "returned"
        /\ scan[p].result = FALSE
        /\ RowsOfUrl(scan_history, scan[p].url) # {}
        /\ Db = scan[p].db_at_call

(***************************************************************************)
(* C29: notification never affects detection: when the notifier is         *)
(* disabled or the recipient list is empty, a scan with a non-empty        *)
(* changeset sends nothing, but persists the scan record with all of its   *)
(* change rows and returns True, exactly as with notification enabled.     *)
(***************************************************************************)
C29_DetectionWithoutNotification ==
    \A p \in Procs :
        LET f == scan[p]
        IN  (LookedUp(f) /\ f.changes # <<>>) =>
              /\ (~config.email_enabled \/ config.recipients = <<>>) =>
                    (f.alerts = <<>> /\ f.pc # "notify")
              /\ f.pc = "returned" =>
                    /\ Recorded(f)
                    /\ scan_history[f.scan_id].changes_detected = Len(f.changes)
                    /\ f.result = TRUE

C29_Witness ==
    \E p \in Procs :
        /\ ~config.email_enabled
        /\ config.recipients # <<>>
        /\ scan[p].pc = "returned"
        /\ Len(scan[p].changes) = 2
        /\ scan[p].alerts = <<>>
        /\ scan[p].result = TRUE
        /\ Len(ChangeRowsOf(detected_changes, scan[p].scan_id)) = 2

(***************************************************************************)
(* C30: when two structures differ only in the action or method of a form  *)
(* of both (input sequences equal), _compare_forms emits no form change;   *)
(* the change surfaces only as attribute_modified, attribute_added or      *)
(* attribute_removed changes of the action and method attributes on the    *)
(* form's path, from _compare_attributes.                                  *)
(***************************************************************************)
OnlyActionOrMethodDiffers(old_structure, new_structure) ==
    /\ ElementsOf(old_structure) = ElementsOf(new_structure)
    /\ TablesOf(old_structure) = TablesOf(new_structure)
    /\ DOMAIN FormsOf(old_structure) = DOMAIN FormsOf(new_structure)
    /\ FormsOf(old_structure) # FormsOf(new_structure)
    /\ \A xpath \in DOMAIN FormsOf(old_structure) :
          FormsOf(old_structure)[xpath].inputs = FormsOf(new_structure)[xpath].inputs

FormAttributeChanges(old_structure, new_structure) ==
    Flatten(MapSeq(KeysIn(XPathOrder, DOMAIN FormsOf(old_structure)), LAMBDA xpath :
        Flatten(MapSeq(<< "action", "method" >>, LAMBDA attr_name :
            MapSeq(ExpectedAttributeChange(
                       AttributeValue(old_structure, xpath, attr_name),
                       AttributeValue(new_structure, xpath, attr_name),
                       xpath, attr_name, 0),
                   ChangeColumns)))))

C30_FormActionAsAttribute ==
    \A p \in Procs :
        LET f == scan[p]
        IN  (Diffed(f) /\ OnlyActionOrMethodDiffers(PreviousStructure(f), f.current_structure))
              => /\ TypesOf(f.changes) \cap FormTypes = {}
                 /\ MapSeq(f.changes, ChangeColumns)
                      = FormAttributeChanges(PreviousStructure(f), f.current_structure)
                 /\ f.changes # <<>>

C30_Witness ==
    \E p \in Procs :
        LET f == scan[p]
        IN  /\ Diffed(f)
            /\ f.pc = "returned"
            /\ OnlyActionOrMethodDiffers(PreviousStructure(f), f.current_structure)
            /\ FormsOf(PreviousStructure(f))["/html/body/form"].action = "/a"
            /\ FormsOf(f.current_structure)["/html/body/form"].action = "/b"
            /\ MapSeq(f.changes, ChangeColumns) =
                  << Change("attribute_modified", "/html/body/form/@action",
                            Some("/a"), Some("/b"), "attribute") >>

====
